---- MODULE Spec2Model ----
(***************************************************************************)
(* The Nicira Extended Match (NXM) codec of lib/nx-match.c.                *)
(*                                                                         *)
(* Byte buffers are sequences of bytes (0..255).  A C pointer into a       *)
(* buffer is a 0-based offset into the sequence.  Values of 32 and 64 bits *)
(* are kept as their big-endian byte strings (the wire form), values of 8  *)
(* and 16 bits as the number those bytes denote, so that htons/ntohs and   *)
(* friends are the conversion between the two forms.                       *)
(***************************************************************************)
EXTENDS Integers, Sequences, FiniteSets, TLC

----------------------------------------------------------------------------
(* Bytes, words and buffers.                                               *)

Bit(x, k) == (x \div k) % 2

\* a & b on two bytes
And8(a, b) ==
    Bit(a, 1) * Bit(b, 1) + 2 * (Bit(a, 2) * Bit(b, 2))
    + 4 * (Bit(a, 4) * Bit(b, 4)) + 8 * (Bit(a, 8) * Bit(b, 8))
    + 16 * (Bit(a, 16) * Bit(b, 16)) + 32 * (Bit(a, 32) * Bit(b, 32))
    + 64 * (Bit(a, 64) * Bit(b, 64)) + 128 * (Bit(a, 128) * Bit(b, 128))

\* a & b on two byte strings of the same length
AndBytes(a, m) == [i \in DOMAIN a |-> And8(a[i], m[i])]

Zeros(n) == [i \in 1..n |-> 0]

Ones(n) == [i \in 1..n |-> 255]

\* the n bytes of buffer d that start at offset ofs (memcpy out of the buffer)
Bytes(d, ofs, n) == [i \in 1..n |-> d[ofs + i]]

\* *(uint8_t *) p
get_u8(d, ofs) == d[ofs + 1]

\* ntohs(get_unaligned_u16(p)): the number the two bytes at p denote
get_unaligned_u16(d, ofs) == d[ofs + 1] * 256 + d[ofs + 2]

\* get_unaligned_u32(p), kept as its four wire bytes
get_unaligned_u32(d, ofs) == Bytes(d, ofs, 4)

\* get_unaligned_u64(p), kept as its eight wire bytes
get_unaligned_u64(d, ofs) == Bytes(d, ofs, 8)

\* the two wire bytes of a 16-bit number
Be16(v) == <<(v \div 256) % 256, v % 256>>

ROUND_UP(x, y) == ((x + y - 1) \div y) * y

----------------------------------------------------------------------------
(* Protocol constants.                                                     *)

NXM_INVALID == "NXM_INVALID"
NXM_BAD_TYPE == "NXM_BAD_TYPE"
NXM_BAD_VALUE == "NXM_BAD_VALUE"
NXM_BAD_MASK == "NXM_BAD_MASK"
NXM_BAD_PREREQ == "NXM_BAD_PREREQ"
NXM_DUP_TYPE == "NXM_DUP_TYPE"
BAD_ARGUMENT == "BAD_ARGUMENT"
OFPBRC_BAD_LEN == "OFPBRC_BAD_LEN"
\* the return value 0 of the decoder
NO_ERROR == "0"

OFPP_LOCAL == 65534
ODPP_LOCAL == 0
ETH_TYPE_IP == 2048
ETH_TYPE_ARP == 2054
IP_TYPE_ICMP == 1
IP_TYPE_TCP == 6
IP_TYPE_UDP == 17
ETH_ADDR_LEN == 6
VLAN_VID_MASK == 4095
VLAN_PCP_MASK == 57344
VLAN_PCP_SHIFT == 13
VLAN_CFI == 4096
OFP_VLAN_NONE == 65535
FLOW_N_REGS == 3

\* The wildcard bits of flow_wildcards.wildcards; a bit mask is the set of
\* the bits that are 1 in it.
OFPFW_IN_PORT == {"IN_PORT"}
OFPFW_DL_VLAN == {"DL_VLAN"}
OFPFW_DL_SRC == {"DL_SRC"}
OFPFW_DL_DST == {"DL_DST"}
OFPFW_DL_TYPE == {"DL_TYPE"}
OFPFW_NW_PROTO == {"NW_PROTO"}
OFPFW_TP_SRC == {"TP_SRC"}
OFPFW_TP_DST == {"TP_DST"}
OFPFW_DL_VLAN_PCP == {"DL_VLAN_PCP"}
OFPFW_NW_TOS == {"NW_TOS"}
NXFW_TUN_ID == {"TUN_ID"}
FWW_ETH_MCAST == {"ETH_MCAST"}
OVSFW_ALL ==
    OFPFW_IN_PORT \cup OFPFW_DL_VLAN \cup OFPFW_DL_SRC \cup OFPFW_DL_DST
    \cup OFPFW_DL_TYPE \cup OFPFW_NW_PROTO \cup OFPFW_TP_SRC \cup OFPFW_TP_DST
    \cup OFPFW_DL_VLAN_PCP \cup OFPFW_NW_TOS \cup NXFW_TUN_ID \cup FWW_ETH_MCAST

\* Possible masks for NXM_OF_ETH_DST_W.
eth_all_0s == <<0, 0, 0, 0, 0, 0>>
eth_all_1s == <<255, 255, 255, 255, 255, 255>>
eth_mcast_1 == <<1, 0, 0, 0, 0, 0>>
eth_mcast_0 == <<254, 255, 255, 255, 255, 255>>

----------------------------------------------------------------------------
(* NXM headers: vendor:16 | field:7 | hasmask:1 | length:8, as 4 bytes.    *)

NXM_HEADER(vendor, field, length) ==
    <<vendor \div 256, vendor % 256, field * 2, length>>

NXM_HEADER_W(vendor, field, length) ==
    <<vendor \div 256, vendor % 256, field * 2 + 1, length * 2>>

NXM_VENDOR(header) == header[1] * 256 + header[2]
NXM_FIELD(header) == header[3] \div 2
NXM_HASMASK(header) == header[3] % 2
NXM_LENGTH(header) == header[4]

NXM_MAKE_WILD_HEADER(header) ==
    NXM_HEADER_W(NXM_VENDOR(header), NXM_FIELD(header), NXM_LENGTH(header))

NXM_OF_IN_PORT == NXM_HEADER(0, 0, 2)
NXM_OF_ETH_DST == NXM_HEADER(0, 1, 6)
NXM_OF_ETH_DST_W == NXM_HEADER_W(0, 1, 6)
NXM_OF_ETH_SRC == NXM_HEADER(0, 2, 6)
NXM_OF_ETH_TYPE == NXM_HEADER(0, 3, 2)
NXM_OF_VLAN_TCI == NXM_HEADER(0, 4, 2)
NXM_OF_VLAN_TCI_W == NXM_HEADER_W(0, 4, 2)
NXM_OF_IP_TOS == NXM_HEADER(0, 5, 1)
NXM_OF_IP_PROTO == NXM_HEADER(0, 6, 1)
NXM_OF_IP_SRC == NXM_HEADER(0, 7, 4)
NXM_OF_IP_SRC_W == NXM_HEADER_W(0, 7, 4)
NXM_OF_IP_DST == NXM_HEADER(0, 8, 4)
NXM_OF_IP_DST_W == NXM_HEADER_W(0, 8, 4)
NXM_OF_TCP_SRC == NXM_HEADER(0, 9, 2)
NXM_OF_TCP_DST == NXM_HEADER(0, 10, 2)
NXM_OF_UDP_SRC == NXM_HEADER(0, 11, 2)
NXM_OF_UDP_DST == NXM_HEADER(0, 12, 2)
NXM_OF_ICMP_TYPE == NXM_HEADER(0, 13, 1)
NXM_OF_ICMP_CODE == NXM_HEADER(0, 14, 1)
NXM_OF_ARP_OP == NXM_HEADER(0, 15, 2)
NXM_OF_ARP_SPA == NXM_HEADER(0, 16, 4)
NXM_OF_ARP_SPA_W == NXM_HEADER_W(0, 16, 4)
NXM_OF_ARP_TPA == NXM_HEADER(0, 17, 4)
NXM_OF_ARP_TPA_W == NXM_HEADER_W(0, 17, 4)
NXM_NX_REG(idx) == NXM_HEADER(1, idx, 4)
NXM_NX_REG_W(idx) == NXM_HEADER_W(1, idx, 4)
NXM_NX_TUN_ID == NXM_HEADER(1, 16, 8)

NXM_NX_REG_IDX(header) == NXM_FIELD(header)

\* !((header ^ NXM_NX_REG0) & 0xffffe1ff): equal to NXM_NX_REG0 outside the
\* four low bits of the field number
NXM_IS_NX_REG(header) ==
    /\ NXM_VENDOR(header) = 1
    /\ NXM_FIELD(header) < 16
    /\ NXM_HASMASK(header) = 0
    /\ NXM_LENGTH(header) = 4

----------------------------------------------------------------------------
(* The field registry.                                                     *)

DEFINE_FIELD(name, header, wildcard, dl_type, nw_proto) ==
    [index |-> name, header |-> header, wildcard |-> wildcard,
     dl_type |-> dl_type, nw_proto |-> nw_proto, name |-> name]

\* All the known fields, in the order of nx-match.def.
nxm_fields ==
    << DEFINE_FIELD("NXM_OF_IN_PORT", NXM_OF_IN_PORT, OFPFW_IN_PORT, 0, 0),
       DEFINE_FIELD("NXM_OF_ETH_DST", NXM_OF_ETH_DST, {}, 0, 0),
       DEFINE_FIELD("NXM_OF_ETH_DST_W", NXM_OF_ETH_DST_W, {}, 0, 0),
       DEFINE_FIELD("NXM_OF_ETH_SRC", NXM_OF_ETH_SRC, OFPFW_DL_SRC, 0, 0),
       DEFINE_FIELD("NXM_OF_ETH_TYPE", NXM_OF_ETH_TYPE, OFPFW_DL_TYPE, 0, 0),
       DEFINE_FIELD("NXM_OF_VLAN_TCI", NXM_OF_VLAN_TCI, {}, 0, 0),
       DEFINE_FIELD("NXM_OF_VLAN_TCI_W", NXM_OF_VLAN_TCI_W, {}, 0, 0),
       DEFINE_FIELD("NXM_OF_IP_TOS", NXM_OF_IP_TOS, OFPFW_NW_TOS,
                    ETH_TYPE_IP, 0),
       DEFINE_FIELD("NXM_OF_IP_PROTO", NXM_OF_IP_PROTO, OFPFW_NW_PROTO,
                    ETH_TYPE_IP, 0),
       DEFINE_FIELD("NXM_OF_IP_SRC", NXM_OF_IP_SRC, {}, ETH_TYPE_IP, 0),
       DEFINE_FIELD("NXM_OF_IP_SRC_W", NXM_OF_IP_SRC_W, {}, ETH_TYPE_IP, 0),
       DEFINE_FIELD("NXM_OF_IP_DST", NXM_OF_IP_DST, {}, ETH_TYPE_IP, 0),
       DEFINE_FIELD("NXM_OF_IP_DST_W", NXM_OF_IP_DST_W, {}, ETH_TYPE_IP, 0),
       DEFINE_FIELD("NXM_OF_TCP_SRC", NXM_OF_TCP_SRC, OFPFW_TP_SRC,
                    ETH_TYPE_IP, IP_TYPE_TCP),
       DEFINE_FIELD("NXM_OF_TCP_DST", NXM_OF_TCP_DST, OFPFW_TP_DST,
                    ETH_TYPE_IP, IP_TYPE_TCP),
       DEFINE_FIELD("NXM_OF_UDP_SRC", NXM_OF_UDP_SRC, OFPFW_TP_SRC,
                    ETH_TYPE_IP, IP_TYPE_UDP),
       DEFINE_FIELD("NXM_OF_UDP_DST", NXM_OF_UDP_DST, OFPFW_TP_DST,
                    ETH_TYPE_IP, IP_TYPE_UDP),
       DEFINE_FIELD("NXM_OF_ICMP_TYPE", NXM_OF_ICMP_TYPE, OFPFW_TP_SRC,
                    ETH_TYPE_IP, IP_TYPE_ICMP),
       DEFINE_FIELD("NXM_OF_ICMP_CODE", NXM_OF_ICMP_CODE, OFPFW_TP_DST,
                    ETH_TYPE_IP, IP_TYPE_ICMP),
       DEFINE_FIELD("NXM_OF_ARP_OP", NXM_OF_ARP_OP, OFPFW_NW_PROTO,
                    ETH_TYPE_ARP, 0),
       DEFINE_FIELD("NXM_OF_ARP_SPA", NXM_OF_ARP_SPA, {}, ETH_TYPE_ARP, 0),
       DEFINE_FIELD("NXM_OF_ARP_SPA_W", NXM_OF_ARP_SPA_W, {}, ETH_TYPE_ARP, 0),
       DEFINE_FIELD("NXM_OF_ARP_TPA", NXM_OF_ARP_TPA, {}, ETH_TYPE_ARP, 0),
       DEFINE_FIELD("NXM_OF_ARP_TPA_W", NXM_OF_ARP_TPA_W, {}, ETH_TYPE_ARP, 0),
       DEFINE_FIELD("NXM_NX_TUN_ID", NXM_NX_TUN_ID, NXFW_TUN_ID, 0, 0),
       DEFINE_FIELD("NXM_NX_REG0", NXM_NX_REG(0), {}, 0, 0),
       DEFINE_FIELD("NXM_NX_REG0_W", NXM_NX_REG_W(0), {}, 0, 0),
       DEFINE_FIELD("NXM_NX_REG1", NXM_NX_REG(1), {}, 0, 0),
       DEFINE_FIELD("NXM_NX_REG1_W", NXM_NX_REG_W(1), {}, 0, 0),
       DEFINE_FIELD("NXM_NX_REG2", NXM_NX_REG(2), {}, 0, 0),
       DEFINE_FIELD("NXM_NX_REG2_W", NXM_NX_REG_W(2), {}, 0, 0) >>

N_NXM_FIELDS == Len(nxm_fields)

\* the null pointer of type struct nxm_field *
NULL == DEFINE_FIELD("NULL", <<0, 0, 0, 0>>, {}, 0, 0)

\* The registered field with the given header, or NULL.
nxm_field_lookup(header) ==
    IF \E i \in 1..N_NXM_FIELDS : nxm_fields[i].header = header
    THEN nxm_fields[CHOOSE i \in 1..N_NXM_FIELDS :
                        nxm_fields[i].header = header]
    ELSE NULL

\* Width of the data for a field with the given header, in bytes.
nxm_field_bytes(header) ==
    IF NXM_HASMASK(header) = 1
    THEN NXM_LENGTH(header) \div 2
    ELSE NXM_LENGTH(header)

\* Width of the data for a field with the given header, in bits.
nxm_field_bits(header) == nxm_field_bytes(header) * 8

----------------------------------------------------------------------------
(* The classifier's match rule (struct cls_rule) and its setters.          *)

Zero32 == Zeros(4)

Ones32 == Ones(4)

\* cls_rule_init_catchall(): every field zero, everything wildcarded.
cls_rule_init_catchall(priority) ==
    [flow |-> [in_port |-> 0, dl_dst |-> Zeros(ETH_ADDR_LEN),
               dl_src |-> Zeros(ETH_ADDR_LEN), dl_type |-> 0,
               dl_vlan |-> 0, dl_vlan_pcp |-> 0, nw_tos |-> 0,
               nw_proto |-> 0, nw_src |-> Zero32, nw_dst |-> Zero32,
               tp_src |-> 0, tp_dst |-> 0, tun_id |-> Zero32,
               regs |-> [i \in 0..(FLOW_N_REGS - 1) |-> Zero32]],
     wc |-> [wildcards |-> OVSFW_ALL, nw_src_mask |-> Zero32,
             nw_dst_mask |-> Zero32,
             reg_masks |-> [i \in 0..(FLOW_N_REGS - 1) |-> Zero32]],
     priority |-> priority]

\* a rule together with the value a function returns
Ret(rule, value) == [rule |-> rule, error |-> value]

\* the last byte of a CIDR netmask that is not 255
CidrBytes == {0, 128, 192, 224, 240, 248, 252, 254, 255}

\* ip_is_cidr(): the mask is a run of 1-bits followed by a run of 0-bits
ip_is_cidr(netmask) ==
    \E i \in 1..4 :
        /\ \A j \in 1..(i - 1) : netmask[j] = 255
        /\ netmask[i] \in CidrBytes
        /\ \A j \in (i + 1)..4 : netmask[j] = 0

\* cls_rule_set_nw_src(): exact match on the network source
cls_rule_set_nw_src(rule, nw_src) ==
    [rule EXCEPT !.wc.nw_src_mask = Ones32, !.flow.nw_src = nw_src]

\* cls_rule_set_nw_dst(): exact match on the network destination
cls_rule_set_nw_dst(rule, nw_dst) ==
    [rule EXCEPT !.wc.nw_dst_mask = Ones32, !.flow.nw_dst = nw_dst]

\* cls_rule_set_nw_src_masked(): error is TRUE when the mask was accepted
cls_rule_set_nw_src_masked(rule, ip, mask) ==
    IF ip_is_cidr(mask)
    THEN Ret([rule EXCEPT !.wc.nw_src_mask = mask,
                          !.flow.nw_src = AndBytes(ip, mask)], TRUE)
    ELSE Ret(rule, FALSE)

\* cls_rule_set_nw_dst_masked(): error is TRUE when the mask was accepted
cls_rule_set_nw_dst_masked(rule, ip, mask) ==
    IF ip_is_cidr(mask)
    THEN Ret([rule EXCEPT !.wc.nw_dst_mask = mask,
                          !.flow.nw_dst = AndBytes(ip, mask)], TRUE)
    ELSE Ret(rule, FALSE)

\* flow_wildcards_set_reg_mask()
flow_wildcards_set_reg_mask(wc, idx, mask) ==
    [wc EXCEPT !.reg_masks[idx] = mask]

vlan_tci_to_vid(tci) == tci % (VLAN_VID_MASK + 1)

vlan_tci_to_pcp(tci) == tci \div 8192

\* cls_rule_set_dl_tci_masked(): error is TRUE when the pair was accepted.
\* Only the masks 0xffff, 0x1fff, 0xf000 and 0 are accepted, and a nonzero
\* TCI must have its CFI bit set.
cls_rule_set_dl_tci_masked(rule, tci, mask) ==
    CASE mask = 65535 ->
           IF tci = 0
           THEN Ret([rule EXCEPT
                        !.wc.wildcards =
                            @ \ (OFPFW_DL_VLAN \cup OFPFW_DL_VLAN_PCP),
                        !.flow.dl_vlan = OFP_VLAN_NONE,
                        !.flow.dl_vlan_pcp = 0], TRUE)
           ELSE IF Bit(tci, VLAN_CFI) = 1
           THEN Ret([rule EXCEPT
                        !.wc.wildcards =
                            @ \ (OFPFW_DL_VLAN \cup OFPFW_DL_VLAN_PCP),
                        !.flow.dl_vlan = vlan_tci_to_vid(tci),
                        !.flow.dl_vlan_pcp = vlan_tci_to_pcp(tci)], TRUE)
           ELSE Ret(rule, FALSE)
      [] mask = 8191 ->
           IF Bit(tci, VLAN_CFI) = 0
           THEN Ret(rule, FALSE)
           ELSE Ret([rule EXCEPT
                        !.wc.wildcards =
                            (@ \ OFPFW_DL_VLAN) \cup OFPFW_DL_VLAN_PCP,
                        !.flow.dl_vlan = vlan_tci_to_vid(tci),
                        !.flow.dl_vlan_pcp = 0], TRUE)
      [] mask = 61440 ->
           IF Bit(tci, VLAN_CFI) = 0
           THEN Ret(rule, FALSE)
           ELSE Ret([rule EXCEPT
                        !.wc.wildcards =
                            (@ \ OFPFW_DL_VLAN_PCP) \cup OFPFW_DL_VLAN,
                        !.flow.dl_vlan = 0,
                        !.flow.dl_vlan_pcp = vlan_tci_to_pcp(tci)], TRUE)
      [] mask = 0 ->
           Ret([rule EXCEPT
                   !.wc.wildcards =
                       @ \cup OFPFW_DL_VLAN \cup OFPFW_DL_VLAN_PCP,
                   !.flow.dl_vlan = 0,
                   !.flow.dl_vlan_pcp = 0], TRUE)
      [] OTHER -> Ret(rule, FALSE)

----------------------------------------------------------------------------
(* nx_pull_match() and helpers.                                            *)

parse_tci(rule, tci, mask) ==
    LET OFPFW_DL_TCI == OFPFW_DL_VLAN \cup OFPFW_DL_VLAN_PCP
        r == cls_rule_set_dl_tci_masked(rule, tci, mask)
    IN IF rule.wc.wildcards \cap OFPFW_DL_TCI # OFPFW_DL_TCI
       THEN Ret(rule, NXM_DUP_TYPE)
       ELSE Ret(r.rule, IF r.error THEN NO_ERROR ELSE NXM_INVALID)

\* parse_nx_reg() without its test of the register's mask: a decoder that
\* lets a second entry for a register overwrite the first
parse_nx_reg_overwrite(f, rule, d, value, maskp) ==
    LET idx == NXM_NX_REG_IDX(f.header)
        mask == IF NXM_HASMASK(f.header) = 1
                THEN get_unaligned_u32(d, maskp)
                ELSE Ones32
        wc == flow_wildcards_set_reg_mask(rule.wc, idx, mask)
    IN Ret([rule EXCEPT
               !.wc = wc,
               !.flow.regs[idx] =
                   AndBytes(get_unaligned_u32(d, value), wc.reg_masks[idx])],
           NO_ERROR)

\* 'value' and 'maskp' are offsets into the buffer d
parse_nx_reg(f, rule, d, value, maskp) ==
    LET idx == NXM_NX_REG_IDX(f.header)
        mask == IF NXM_HASMASK(f.header) = 1
                THEN get_unaligned_u32(d, maskp)
                ELSE Ones32
        wc == flow_wildcards_set_reg_mask(rule.wc, idx, mask)
    IN IF rule.wc.reg_masks[idx] # Zero32
       THEN Ret(rule, NXM_DUP_TYPE)
       ELSE Ret([rule EXCEPT
                    !.wc = wc,
                    !.flow.regs[idx] =
                        AndBytes(get_unaligned_u32(d, value),
                                 wc.reg_masks[idx])], NO_ERROR)

\* case NFI_NXM_OF_IP_TOS with a test of the lowest bit only: a decoder of
\* this shape accepts a value with bit 1 set
parse_ip_tos_low_bit(rule, d, value) ==
    IF And8(get_u8(d, value), 1) # 0
    THEN Ret(rule, NXM_BAD_VALUE)
    ELSE Ret([rule EXCEPT !.flow.nw_tos = get_u8(d, value)], NO_ERROR)

\* case NFI_NXM_OF_IP_TOS of parse_nxm_entry()
parse_ip_tos(rule, d, value) ==
    IF And8(get_u8(d, value), 3) # 0
    THEN Ret(rule, NXM_BAD_VALUE)
    ELSE Ret([rule EXCEPT !.flow.nw_tos = get_u8(d, value)], NO_ERROR)

\* case NFI_NXM_OF_ETH_SRC of parse_nxm_entry()
parse_eth_src(rule, d, value) ==
    Ret([rule EXCEPT !.flow.dl_src = Bytes(d, value, ETH_ADDR_LEN)], NO_ERROR)

\* case NFI_NXM_OF_ETH_DST_W with the two multicast masks left out: a
\* decoder that knows the all-zero and the all-one mask only
parse_eth_dst_w_two_masks(rule, d, value, mask) ==
    LET both == OFPFW_DL_DST \cup FWW_ETH_MCAST
        m == Bytes(d, mask, ETH_ADDR_LEN)
    IN IF rule.wc.wildcards \cap both # both
       THEN Ret(rule, NXM_DUP_TYPE)
       ELSE IF m = eth_all_0s
       THEN Ret(rule, NO_ERROR)
       ELSE IF m = eth_all_1s
       THEN Ret([rule EXCEPT
                    !.wc.wildcards = @ \ both,
                    !.flow.dl_dst = Bytes(d, value, ETH_ADDR_LEN)], NO_ERROR)
       ELSE Ret(rule, NXM_BAD_MASK)

\* case NFI_NXM_OF_ETH_DST_W of parse_nxm_entry().  The branches for the
\* masks eth_mcast_1 and eth_mcast_0 end without a return statement, so
\* control continues into the next case label, NFI_NXM_OF_ETH_SRC.
parse_eth_dst_w(rule, d, value, mask) ==
    LET both == OFPFW_DL_DST \cup FWW_ETH_MCAST
        m == Bytes(d, mask, ETH_ADDR_LEN)
    IN IF rule.wc.wildcards \cap both # both
       THEN Ret(rule, NXM_DUP_TYPE)
       ELSE IF m = eth_mcast_1
       THEN parse_eth_src(
                [rule EXCEPT !.wc.wildcards = @ \ FWW_ETH_MCAST,
                             !.flow.dl_dst[1] = And8(get_u8(d, value), 1)],
                d, value)
       ELSE IF m = eth_mcast_0
       THEN parse_eth_src(
                [rule EXCEPT
                    !.wc.wildcards = @ \ OFPFW_DL_DST,
                    !.flow.dl_dst =
                        [Bytes(d, value, ETH_ADDR_LEN) EXCEPT
                            ![1] = And8(@, 254)]],
                d, value)
       ELSE IF m = eth_all_0s
       THEN Ret(rule, NO_ERROR)
       ELSE IF m = eth_all_1s
       THEN Ret([rule EXCEPT
                    !.wc.wildcards = @ \ both,
                    !.flow.dl_dst = Bytes(d, value, ETH_ADDR_LEN)], NO_ERROR)
       ELSE Ret(rule, NXM_BAD_MASK)

\* 'value' and 'mask' are offsets into the buffer d
parse_nxm_entry(rule, f, d, value, mask) ==
    LET wc == rule.wc
        both == OFPFW_DL_DST \cup FWW_ETH_MCAST
        in_port == get_unaligned_u16(d, value)
        srcw == cls_rule_set_nw_src_masked(rule, get_unaligned_u32(d, value),
                                           get_unaligned_u32(d, mask))
        dstw == cls_rule_set_nw_dst_masked(rule, get_unaligned_u32(d, value),
                                           get_unaligned_u32(d, mask))
    IN CASE f.index = "NXM_OF_IN_PORT" ->
              Ret([rule EXCEPT !.flow.in_port =
                      IF in_port = OFPP_LOCAL THEN ODPP_LOCAL ELSE in_port],
                  NO_ERROR)
         [] f.index = "NXM_OF_ETH_DST" ->
              IF wc.wildcards \cap both # both
              THEN Ret(rule, NXM_DUP_TYPE)
              ELSE Ret([rule EXCEPT
                           !.wc.wildcards = @ \ both,
                           !.flow.dl_dst = Bytes(d, value, ETH_ADDR_LEN)],
                       NO_ERROR)
         [] f.index = "NXM_OF_ETH_DST_W" -> parse_eth_dst_w(rule, d, value, mask)
         [] f.index = "NXM_OF_ETH_SRC" -> parse_eth_src(rule, d, value)
         [] f.index = "NXM_OF_ETH_TYPE" ->
              Ret([rule EXCEPT !.flow.dl_type = get_unaligned_u16(d, value)],
                  NO_ERROR)
         [] f.index = "NXM_OF_VLAN_TCI" ->
              parse_tci(rule, get_unaligned_u16(d, value), 65535)
         [] f.index = "NXM_OF_VLAN_TCI_W" ->
              parse_tci(rule, get_unaligned_u16(d, value),
                        get_unaligned_u16(d, mask))
         [] f.index = "NXM_OF_IP_TOS" -> parse_ip_tos(rule, d, value)
         [] f.index = "NXM_OF_IP_PROTO" ->
              Ret([rule EXCEPT !.flow.nw_proto = get_u8(d, value)], NO_ERROR)
         [] f.index \in {"NXM_OF_IP_SRC", "NXM_OF_ARP_SPA"} ->
              IF wc.nw_src_mask # Zero32
              THEN Ret(rule, NXM_DUP_TYPE)
              ELSE Ret(cls_rule_set_nw_src(rule, get_unaligned_u32(d, value)),
                       NO_ERROR)
         [] f.index \in {"NXM_OF_IP_SRC_W", "NXM_OF_ARP_SPA_W"} ->
              IF wc.nw_src_mask # Zero32
              THEN Ret(rule, NXM_DUP_TYPE)
              ELSE IF ~srcw.error
              THEN Ret(srcw.rule, NXM_BAD_MASK)
              ELSE Ret(srcw.rule, NO_ERROR)
         [] f.index \in {"NXM_OF_IP_DST", "NXM_OF_ARP_TPA"} ->
              IF wc.nw_dst_mask # Zero32
              THEN Ret(rule, NXM_DUP_TYPE)
              ELSE Ret(cls_rule_set_nw_dst(rule, get_unaligned_u32(d, value)),
                       NO_ERROR)
         [] f.index \in {"NXM_OF_IP_DST_W", "NXM_OF_ARP_TPA_W"} ->
              IF wc.nw_dst_mask # Zero32
              THEN Ret(rule, NXM_DUP_TYPE)
              ELSE IF ~dstw.error
              THEN Ret(dstw.rule, NXM_BAD_MASK)
              ELSE Ret(dstw.rule, NO_ERROR)
         [] f.index \in {"NXM_OF_TCP_SRC", "NXM_OF_UDP_SRC"} ->
              Ret([rule EXCEPT !.flow.tp_src = get_unaligned_u16(d, value)],
                  NO_ERROR)
         [] f.index \in {"NXM_OF_TCP_DST", "NXM_OF_UDP_DST"} ->
              Ret([rule EXCEPT !.flow.tp_dst = get_unaligned_u16(d, value)],
                  NO_ERROR)
         [] f.index = "NXM_OF_ICMP_TYPE" ->
              Ret([rule EXCEPT !.flow.tp_src = get_u8(d, value)], NO_ERROR)
         [] f.index = "NXM_OF_ICMP_CODE" ->
              Ret([rule EXCEPT !.flow.tp_dst = get_u8(d, value)], NO_ERROR)
         [] f.index = "NXM_OF_ARP_OP" ->
              IF get_unaligned_u16(d, value) > 255
              THEN Ret(rule, NXM_BAD_VALUE)
              ELSE Ret([rule EXCEPT
                           !.flow.nw_proto = get_unaligned_u16(d, value)],
                       NO_ERROR)
         [] f.index = "NXM_NX_TUN_ID" ->
              \* htonl(ntohll(value)): the low 32 bits of the 64-bit value
              Ret([rule EXCEPT !.flow.tun_id = Bytes(d, value + 4, 4)],
                  NO_ERROR)
         [] OTHER -> parse_nx_reg(f, rule, d, value, mask)

\* nxm_prereqs_ok() without its test of nw_proto: a decoder that accepts a
\* transport field after any IP protocol
nxm_prereqs_ok_dl_type(field, flow) ==
    field.dl_type = 0 \/ field.dl_type = flow.dl_type

nxm_prereqs_ok(field, flow) ==
    \/ field.dl_type = 0
    \/ /\ field.dl_type = flow.dl_type
       /\ (field.nw_proto = 0 \/ field.nw_proto = flow.nw_proto)

\* the value 0 that nx_entry_ok() returns for "no entry"
NO_HEADER == <<0, 0, 0, 0>>

\* nx_entry_ok() without its test of the payload length: a decoder that
\* hands an entry of payload length 0 to the loop
nx_entry_ok_any_length(d, p, match_len) ==
    LET header == Bytes(d, p, 4)
        payload_len == NXM_LENGTH(header)
    IN IF match_len < 4
       THEN NO_HEADER
       ELSE IF match_len < payload_len + 4
       THEN NO_HEADER
       ELSE header

\* The header of the entry at offset p of d when a whole entry fits in the
\* match_len bytes that remain, else NO_HEADER.
nx_entry_ok(d, p, match_len) ==
    LET header == Bytes(d, p, 4)
        payload_len == NXM_LENGTH(header)
    IN IF match_len < 4
       THEN NO_HEADER
       ELSE IF payload_len = 0
       THEN NO_HEADER
       ELSE IF match_len < payload_len + 4
       THEN NO_HEADER
       ELSE header

\* the loop body with the duplicate test ahead of the prerequisite test
pull_entry_dup_first(rule, d, p, header) ==
    LET length == NXM_LENGTH(header)
        f == nxm_field_lookup(header)
    IN IF f = NULL
       THEN Ret(rule, NXM_BAD_TYPE)
       ELSE IF f.wildcard # {} /\ rule.wc.wildcards \cap f.wildcard = {}
       THEN Ret(rule, NXM_DUP_TYPE)
       ELSE IF ~nxm_prereqs_ok(f, rule.flow)
       THEN Ret(rule, NXM_BAD_PREREQ)
       ELSE parse_nxm_entry([rule EXCEPT !.wc.wildcards = @ \ f.wildcard],
                            f, d, p + 4, p + 4 + length \div 2)

\* The body of the loop of nx_pull_match() for the entry at offset p whose
\* header nx_entry_ok() returned: the rule as the entry leaves it, and the
\* entry's error.
pull_entry(rule, d, p, header) ==
    LET length == NXM_LENGTH(header)
        f == nxm_field_lookup(header)
    IN IF f = NULL
       THEN Ret(rule, NXM_BAD_TYPE)
       ELSE IF ~nxm_prereqs_ok(f, rule.flow)
       THEN Ret(rule, NXM_BAD_PREREQ)
       ELSE IF f.wildcard # {} /\ rule.wc.wildcards \cap f.wildcard = {}
       THEN Ret(rule, NXM_DUP_TYPE)
       ELSE parse_nxm_entry([rule EXCEPT !.wc.wildcards = @ \ f.wildcard],
                            f, d, p + 4, p + 4 + length \div 2)

----------------------------------------------------------------------------
(* nx_put_match() and helpers.  A 'put' function returns the buffer with   *)
(* the bytes it appends.                                                   *)

ofpbuf_put(b, bytes) == b \o bytes

ofpbuf_put_zeros(b, n) == b \o Zeros(n)

nxm_put_header(b, header) == ofpbuf_put(b, header)

nxm_put_8(b, header, value) ==
    ofpbuf_put(nxm_put_header(b, header), <<value % 256>>)

nxm_put_16(b, header, value) ==
    ofpbuf_put(nxm_put_header(b, header), Be16(value))

nxm_put_16w(b, header, value, mask) ==
    ofpbuf_put(ofpbuf_put(nxm_put_header(b, header), Be16(value)), Be16(mask))

nxm_put_32(b, header, value) ==
    ofpbuf_put(nxm_put_header(b, header), value)

nxm_put_32w(b, header, value, mask) ==
    ofpbuf_put(ofpbuf_put(nxm_put_header(b, header), value), mask)

\* nxm_put_32m() without its test for the all-one mask: an encoder that
\* emits the masked form for every nonzero mask
nxm_put_32m_always_masked(b, header, value, mask) ==
    CASE mask = Zero32 -> b
      [] OTHER -> nxm_put_32w(b, NXM_MAKE_WILD_HEADER(header), value, mask)

nxm_put_32m(b, header, value, mask) ==
    CASE mask = Zero32 -> b
      [] mask = Ones32 -> nxm_put_32(b, header, value)
      [] OTHER -> nxm_put_32w(b, NXM_MAKE_WILD_HEADER(header), value, mask)

nxm_put_64(b, header, value) ==
    ofpbuf_put(nxm_put_header(b, header), value)

nxm_put_eth(b, header, value) ==
    ofpbuf_put(nxm_put_header(b, header), value)

nxm_put_eth_dst(b, wc, value) ==
    LET sel == wc \cap (OFPFW_DL_DST \cup FWW_ETH_MCAST)
    IN CASE sel = OFPFW_DL_DST \cup FWW_ETH_MCAST -> b
         [] sel = OFPFW_DL_DST ->
              ofpbuf_put(ofpbuf_put(nxm_put_header(b, NXM_OF_ETH_DST_W),
                                    value), eth_mcast_1)
         [] sel = FWW_ETH_MCAST ->
              ofpbuf_put(ofpbuf_put(nxm_put_header(b, NXM_OF_ETH_DST_W),
                                    value), eth_mcast_0)
         [] OTHER -> nxm_put_eth(b, NXM_OF_ETH_DST, value)

\* "Metadata" and "Ethernet" without the translation of ODPP_LOCAL: an
\* encoder that emits the datapath's port number as it is
put_ethernet_odp_port(b, cr) ==
    LET wc == cr.wc.wildcards
        flow == cr.flow
        b1 == IF wc \cap OFPFW_IN_PORT = {}
              THEN nxm_put_16(b, NXM_OF_IN_PORT, flow.in_port)
              ELSE b
        b2 == nxm_put_eth_dst(b1, wc, flow.dl_dst)
        b3 == IF wc \cap OFPFW_DL_SRC = {}
              THEN nxm_put_eth(b2, NXM_OF_ETH_SRC, flow.dl_src)
              ELSE b2
    IN IF wc \cap OFPFW_DL_TYPE = {}
       THEN nxm_put_16(b3, NXM_OF_ETH_TYPE, flow.dl_type)
       ELSE b3

\* "Metadata" and "Ethernet" of nx_put_match()
put_ethernet(b, cr) ==
    LET wc == cr.wc.wildcards
        flow == cr.flow
        in_port == IF flow.in_port = ODPP_LOCAL
                   THEN OFPP_LOCAL
                   ELSE flow.in_port
        b1 == IF wc \cap OFPFW_IN_PORT = {}
              THEN nxm_put_16(b, NXM_OF_IN_PORT, in_port)
              ELSE b
        b2 == nxm_put_eth_dst(b1, wc, flow.dl_dst)
        b3 == IF wc \cap OFPFW_DL_SRC = {}
              THEN nxm_put_eth(b2, NXM_OF_ETH_SRC, flow.dl_src)
              ELSE b2
    IN IF wc \cap OFPFW_DL_TYPE = {}
       THEN nxm_put_16(b3, NXM_OF_ETH_TYPE, flow.dl_type)
       ELSE b3

\* "802.1Q" of nx_put_match()
put_vlan(b, cr) ==
    LET flow == cr.flow
        sel == cr.wc.wildcards \cap (OFPFW_DL_VLAN \cup OFPFW_DL_VLAN_PCP)
        \* flow->dl_vlan & htons(VLAN_VID_MASK)
        vid == flow.dl_vlan % (VLAN_VID_MASK + 1)
        \* (flow->dl_vlan_pcp << VLAN_PCP_SHIFT) & VLAN_PCP_MASK
        pcp == (flow.dl_vlan_pcp % 8) * 8192
    IN CASE sel = OFPFW_DL_VLAN \cup OFPFW_DL_VLAN_PCP -> b
         [] sel = OFPFW_DL_VLAN ->
              nxm_put_16w(b, NXM_OF_VLAN_TCI_W, pcp + VLAN_CFI,
                          VLAN_PCP_MASK + VLAN_CFI)
         [] sel = OFPFW_DL_VLAN_PCP ->
              IF flow.dl_vlan = OFP_VLAN_NONE
              THEN nxm_put_16(b, NXM_OF_VLAN_TCI, 0)
              ELSE nxm_put_16w(b, NXM_OF_VLAN_TCI_W, vid + VLAN_CFI,
                               VLAN_VID_MASK + VLAN_CFI)
         [] OTHER ->
              IF flow.dl_vlan = OFP_VLAN_NONE
              THEN nxm_put_16(b, NXM_OF_VLAN_TCI, 0)
              ELSE nxm_put_16(b, NXM_OF_VLAN_TCI, vid + pcp + VLAN_CFI)

\* the transport fields that follow NXM_OF_IP_PROTO in nx_put_match()
put_transport(b, cr) ==
    LET wc == cr.wc.wildcards
        flow == cr.flow
        src == CASE flow.nw_proto = IP_TYPE_TCP -> NXM_OF_TCP_SRC
                 [] flow.nw_proto = IP_TYPE_UDP -> NXM_OF_UDP_SRC
                 [] OTHER -> NXM_OF_ICMP_TYPE
        dst == CASE flow.nw_proto = IP_TYPE_TCP -> NXM_OF_TCP_DST
                 [] flow.nw_proto = IP_TYPE_UDP -> NXM_OF_UDP_DST
                 [] OTHER -> NXM_OF_ICMP_CODE
        put(bb, header, value) ==
            IF flow.nw_proto = IP_TYPE_ICMP
            THEN nxm_put_8(bb, header, value)
            ELSE nxm_put_16(bb, header, value)
        b1 == IF wc \cap OFPFW_TP_SRC = {}
              THEN put(b, src, flow.tp_src)
              ELSE b
    IN IF flow.nw_proto \notin {IP_TYPE_TCP, IP_TYPE_UDP, IP_TYPE_ICMP}
       THEN b
       ELSE IF wc \cap OFPFW_TP_DST = {}
       THEN put(b1, dst, flow.tp_dst)
       ELSE b1

\* "IP" and "ARP" of nx_put_match()
put_network(b, cr) ==
    LET wc == cr.wc.wildcards
        flow == cr.flow
        ip1 == IF wc \cap OFPFW_NW_TOS = {}
               THEN nxm_put_8(b, NXM_OF_IP_TOS, And8(flow.nw_tos, 252))
               ELSE b
        ip2 == nxm_put_32m(ip1, NXM_OF_IP_SRC, flow.nw_src, cr.wc.nw_src_mask)
        ip3 == nxm_put_32m(ip2, NXM_OF_IP_DST, flow.nw_dst, cr.wc.nw_dst_mask)
        arp1 == IF wc \cap OFPFW_NW_PROTO = {}
                THEN nxm_put_16(b, NXM_OF_ARP_OP, flow.nw_proto)
                ELSE b
        arp2 == nxm_put_32m(arp1, NXM_OF_ARP_SPA, flow.nw_src,
                            cr.wc.nw_src_mask)
    IN IF wc \cap OFPFW_DL_TYPE = {} /\ flow.dl_type = ETH_TYPE_IP
       THEN IF wc \cap OFPFW_NW_PROTO = {}
            THEN put_transport(nxm_put_8(ip3, NXM_OF_IP_PROTO, flow.nw_proto),
                               cr)
            ELSE ip3
       ELSE IF wc \cap OFPFW_DL_TYPE = {} /\ flow.dl_type = ETH_TYPE_ARP
       THEN nxm_put_32m(arp2, NXM_OF_ARP_TPA, flow.nw_dst, cr.wc.nw_dst_mask)
       ELSE b

\* the loop "Registers" of nx_put_match(), from register i on
RECURSIVE put_regs(_, _, _)
put_regs(b, cr, i) ==
    IF i < FLOW_N_REGS
    THEN put_regs(nxm_put_32m(b, NXM_NX_REG(i), cr.flow.regs[i],
                              cr.wc.reg_masks[i]), cr, i + 1)
    ELSE b

\* "Tunnel ID" and "Registers" of nx_put_match()
put_tunnel_regs(b, cr) ==
    put_regs(IF cr.wc.wildcards \cap NXFW_TUN_ID = {}
             THEN \* htonll(ntohl(flow->tun_id))
                  nxm_put_64(b, NXM_NX_TUN_ID, Zero32 \o cr.flow.tun_id)
             ELSE b,
             cr, 0)

\* nx_put_match() padding the buffer, not the match, to a multiple of 8
nx_put_match_pad_buffer(b, cr) ==
    LET start_len == Len(b)
        b1 == put_tunnel_regs(
                  put_network(put_vlan(put_ethernet(b, cr), cr), cr), cr)
        match_len == Len(b1) - start_len
    IN [b |-> ofpbuf_put_zeros(b1, ROUND_UP(Len(b1), 8) - Len(b1)),
        match_len |-> match_len]

\* The buffer after the call and the value returned.
nx_put_match(b, cr) ==
    LET start_len == Len(b)
        b1 == put_tunnel_regs(
                  put_network(put_vlan(put_ethernet(b, cr), cr), cr), cr)
        match_len == Len(b1) - start_len
    IN [b |-> ofpbuf_put_zeros(b1, ROUND_UP(match_len, 8) - match_len),
        match_len |-> match_len]

----------------------------------------------------------------------------
(* nx_match_to_string() and nx_match_from_string().  A C string is the     *)
(* sequence of its characters; NUL is what is read at its end.             *)

NUL == "NUL"

\* the character at 0-based offset i of the string str
CharAt(str, i) == IF i < Len(str) THEN str[i + 1] ELSE NUL

HexDigits ==
    <<"0", "1", "2", "3", "4", "5", "6", "7", "8", "9",
      "a", "b", "c", "d", "e", "f">>

UpperHexDigits ==
    <<"0", "1", "2", "3", "4", "5", "6", "7", "8", "9",
      "A", "B", "C", "D", "E", "F">>

\* the characters of a field's name, "NXM_" #HEADER
cstr(name) ==
    CASE name = "NXM_OF_IN_PORT" ->
           <<"N", "X", "M", "_", "O", "F", "_", "I", "N", "_", "P", "O", "R", "T">>
      [] name = "NXM_OF_ETH_DST" ->
           <<"N", "X", "M", "_", "O", "F", "_", "E", "T", "H", "_", "D", "S", "T">>
      [] name = "NXM_OF_ETH_DST_W" ->
           <<"N", "X", "M", "_", "O", "F", "_", "E", "T", "H", "_", "D", "S", "T", "_", "W">>
      [] name = "NXM_OF_ETH_SRC" ->
           <<"N", "X", "M", "_", "O", "F", "_", "E", "T", "H", "_", "S", "R", "C">>
      [] name = "NXM_OF_ETH_TYPE" ->
           <<"N", "X", "M", "_", "O", "F", "_", "E", "T", "H", "_", "T", "Y", "P", "E">>
      [] name = "NXM_OF_VLAN_TCI" ->
           <<"N", "X", "M", "_", "O", "F", "_", "V", "L", "A", "N", "_", "T", "C", "I">>
      [] name = "NXM_OF_VLAN_TCI_W" ->
           <<"N", "X", "M", "_", "O", "F", "_", "V", "L", "A", "N", "_", "T", "C", "I", "_", "W">>
      [] name = "NXM_OF_IP_TOS" ->
           <<"N", "X", "M", "_", "O", "F", "_", "I", "P", "_", "T", "O", "S">>
      [] name = "NXM_OF_IP_PROTO" ->
           <<"N", "X", "M", "_", "O", "F", "_", "I", "P", "_", "P", "R", "O", "T", "O">>
      [] name = "NXM_OF_IP_SRC" ->
           <<"N", "X", "M", "_", "O", "F", "_", "I", "P", "_", "S", "R", "C">>
      [] name = "NXM_OF_IP_SRC_W" ->
           <<"N", "X", "M", "_", "O", "F", "_", "I", "P", "_", "S", "R", "C", "_", "W">>
      [] name = "NXM_OF_IP_DST" ->
           <<"N", "X", "M", "_", "O", "F", "_", "I", "P", "_", "D", "S", "T">>
      [] name = "NXM_OF_IP_DST_W" ->
           <<"N", "X", "M", "_", "O", "F", "_", "I", "P", "_", "D", "S", "T", "_", "W">>
      [] name = "NXM_OF_TCP_SRC" ->
           <<"N", "X", "M", "_", "O", "F", "_", "T", "C", "P", "_", "S", "R", "C">>
      [] name = "NXM_OF_TCP_DST" ->
           <<"N", "X", "M", "_", "O", "F", "_", "T", "C", "P", "_", "D", "S", "T">>
      [] name = "NXM_OF_UDP_SRC" ->
           <<"N", "X", "M", "_", "O", "F", "_", "U", "D", "P", "_", "S", "R", "C">>
      [] name = "NXM_OF_UDP_DST" ->
           <<"N", "X", "M", "_", "O", "F", "_", "U", "D", "P", "_", "D", "S", "T">>
      [] name = "NXM_OF_ICMP_TYPE" ->
           <<"N", "X", "M", "_", "O", "F", "_", "I", "C", "M", "P", "_", "T", "Y", "P", "E">>
      [] name = "NXM_OF_ICMP_CODE" ->
           <<"N", "X", "M", "_", "O", "F", "_", "I", "C", "M", "P", "_", "C", "O", "D", "E">>
      [] name = "NXM_OF_ARP_OP" ->
           <<"N", "X", "M", "_", "O", "F", "_", "A", "R", "P", "_", "O", "P">>
      [] name = "NXM_OF_ARP_SPA" ->
           <<"N", "X", "M", "_", "O", "F", "_", "A", "R", "P", "_", "S", "P", "A">>
      [] name = "NXM_OF_ARP_SPA_W" ->
           <<"N", "X", "M", "_", "O", "F", "_", "A", "R", "P", "_", "S", "P", "A", "_", "W">>
      [] name = "NXM_OF_ARP_TPA" ->
           <<"N", "X", "M", "_", "O", "F", "_", "A", "R", "P", "_", "T", "P", "A">>
      [] name = "NXM_OF_ARP_TPA_W" ->
           <<"N", "X", "M", "_", "O", "F", "_", "A", "R", "P", "_", "T", "P", "A", "_", "W">>
      [] name = "NXM_NX_TUN_ID" ->
           <<"N", "X", "M", "_", "N", "X", "_", "T", "U", "N", "_", "I", "D">>
      [] name = "NXM_NX_REG0" ->
           <<"N", "X", "M", "_", "N", "X", "_", "R", "E", "G", "0">>
      [] name = "NXM_NX_REG0_W" ->
           <<"N", "X", "M", "_", "N", "X", "_", "R", "E", "G", "0", "_", "W">>
      [] name = "NXM_NX_REG1" ->
           <<"N", "X", "M", "_", "N", "X", "_", "R", "E", "G", "1">>
      [] name = "NXM_NX_REG1_W" ->
           <<"N", "X", "M", "_", "N", "X", "_", "R", "E", "G", "1", "_", "W">>
      [] name = "NXM_NX_REG2" ->
           <<"N", "X", "M", "_", "N", "X", "_", "R", "E", "G", "2">>
      [] name = "NXM_NX_REG2_W" ->
           <<"N", "X", "M", "_", "N", "X", "_", "R", "E", "G", "2", "_", "W">>

\* printf's %d and %u of a number that is not negative
RECURSIVE format_decimal(_)
format_decimal(n) ==
    IF n < 10
    THEN <<HexDigits[n + 1]>>
    ELSE format_decimal(n \div 10) \o <<HexDigits[(n % 10) + 1]>>

\* ds_put_format(&s, "%x", byte): no leading zero
format_x(byte) ==
    IF byte < 16
    THEN <<HexDigits[byte + 1]>>
    ELSE <<HexDigits[byte \div 16 + 1], HexDigits[(byte % 16) + 1]>>

\* ds_put_format(&s, "%02x", byte)
format_02x(byte) == <<HexDigits[byte \div 16 + 1], HexDigits[(byte % 16) + 1]>>

\* the loops that print the n bytes of d from offset ofs on
RECURSIVE put_hex_bytes(_, _, _)
put_hex_bytes(d, ofs, n) ==
    IF n = 0
    THEN <<>>
    ELSE format_02x(d[ofs + 1]) \o put_hex_bytes(d, ofs + 1, n - 1)

\* The loop of nx_match_to_string() and what follows it: the string s
\* with the entries from offset p on, match_len bytes remaining.
RECURSIVE to_string_loop(_, _, _, _)
to_string_loop(s, d, p, match_len) ==
    LET header == nx_entry_ok(d, p, match_len)
        length == NXM_LENGTH(header)
        value_len == nxm_field_bytes(header)
        value == p + 4
        mask == value + value_len
        f == nxm_field_lookup(header)
        s1 == IF Len(s) # 0 THEN s \o <<",", " ">> ELSE s
        s2 == IF f # NULL
              THEN s1 \o cstr(f.name)
              ELSE s1 \o format_decimal(NXM_VENDOR(header)) \o <<":">>
                      \o format_decimal(NXM_FIELD(header))
        s3 == s2 \o <<"(">> \o put_hex_bytes(d, value, value_len)
        s4 == IF NXM_HASMASK(header) = 1
              THEN s3 \o <<"/">> \o put_hex_bytes(d, mask, value_len)
              ELSE s3
    IN IF header # NO_HEADER
       THEN to_string_loop(s4 \o <<")">>, d, p + 4 + length,
                           match_len - (4 + length))
       ELSE IF match_len # 0
       THEN s1 \o <<"<">> \o format_decimal(match_len)
               \o <<" ", "i", "n", "v", "a", "l", "i", "d", " ",
                    "b", "y", "t", "e", "s", ">">>
       ELSE s

any_string == <<"<", "a", "n", "y", ">">>

nx_match_to_string(d, match_len) ==
    IF match_len = 0
    THEN any_string
    ELSE to_string_loop(<<>>, d, 0, match_len)

\* strspn(s + i, accept)
RECURSIVE strspn(_, _, _)
strspn(s, i, accept) ==
    IF CharAt(s, i) \in accept THEN 1 + strspn(s, i + 1, accept) ELSE 0

\* strcspn(s + i, reject)
RECURSIVE strcspn(_, _, _)
strcspn(s, i, reject) ==
    IF CharAt(s, i) \notin reject \cup {NUL}
    THEN 1 + strcspn(s, i + 1, reject)
    ELSE 0

\* the value of one hexadecimal digit, -1 if c is not one
hexit_value(c) ==
    IF \E k \in 1..16 : HexDigits[k] = c
    THEN (CHOOSE k \in 1..16 : HexDigits[k] = c) - 1
    ELSE IF \E k \in 1..16 : UpperHexDigits[k] = c
    THEN (CHOOSE k \in 1..16 : UpperHexDigits[k] = c) - 1
    ELSE -1

\* hexits_value(s + i, 2, &ok)
hexits_value(s, i) ==
    LET hi == hexit_value(CharAt(s, i))
        lo == hexit_value(CharAt(s, i + 1))
    IN IF hi < 0 \/ lo < 0
       THEN [ok |-> FALSE, value |-> 0]
       ELSE [ok |-> TRUE, value |-> hi * 16 + lo]

\* lookup_nxm_field(s + i, name_len): the first field whose name is the
\* name_len characters of s from offset i on
lookup_nxm_field(s, i, name_len) ==
    LET name == SubSeq(s, i + 1, i + name_len)
        found == { k \in 1..N_NXM_FIELDS : cstr(nxm_fields[k].name) = name }
    IN IF found = {}
       THEN NULL
       ELSE nxm_fields[CHOOSE k \in found : \A j \in found : k <= j]

\* what a function of nx_match_from_string() leaves: the buffer, the
\* offset in the string, and whether ovs_fatal() ended the process
Parsed(b, i, fatal) == [b |-> b, i |-> i, fatal |-> fatal]

\* parse_hex_bytes(b, s + i, n): the loop is a function of the buffer, the
\* offset and the number of bytes still to parse
parse_hex_bytes(b, s, i, n) ==
    LET loop[bb \in Seq(Nat), ii \in Nat, nn \in Nat] ==
            LET i1 == ii + strspn(s, ii, {" "})
                byte == hexits_value(s, i1)
            IN IF nn = 0
               THEN Parsed(bb, ii, FALSE)
               ELSE IF ~byte.ok
               THEN Parsed(bb, i1, TRUE)
               ELSE loop[ofpbuf_put(bb, <<byte.value>>), i1 + 2, nn - 1]
    IN loop[b, i, n]

\* One turn of the loop of nx_match_from_string(), from its end backwards.
\* The closing parenthesis, after the value and the mask were parsed into m.
from_string_close(m, s) ==
    LET i3 == m.i + strspn(s, m.i, {" "})
    IN IF m.fatal
       THEN m
       ELSE IF CharAt(s, i3) # ")"
       THEN Parsed(m.b, i3, TRUE)
       ELSE Parsed(m.b, i3 + 1, FALSE)

\* the mask of a field with NXM_HASMASK, after the value was parsed into v
from_string_mask(v, s, f) ==
    LET i2 == v.i + strspn(s, v.i, {" "})
    IN IF v.fatal
       THEN v
       ELSE IF NXM_HASMASK(f.header) = 1
       THEN IF CharAt(s, i2) # "/"
            THEN Parsed(v.b, i2, TRUE)
            ELSE parse_hex_bytes(v.b, s, i2 + 1, nxm_field_bytes(f.header))
       ELSE v

\* the header and the value of field f, whose name starts at offset i and
\* whose value starts at offset i1
from_string_value(b, s, i, i1, f) ==
    IF f = NULL
    THEN Parsed(b, i, TRUE)
    ELSE from_string_close(
             from_string_mask(
                 parse_hex_bytes(nxm_put_header(b, f.header), s, i1,
                                 nxm_field_bytes(f.header)),
                 s, f),
             s)

\* the turn of the loop for the field whose name starts at offset i of s
from_string_field(b, s, i) ==
    LET name_len == strcspn(s, i, {"("})
    IN IF CharAt(s, i + name_len) # "("
       THEN Parsed(b, i, TRUE)
       ELSE from_string_value(b, s, i, i + name_len + 1,
                              lookup_nxm_field(s, i, name_len))

\* the loop of nx_match_from_string(), from offset i of s on: a function of
\* the buffer and the offset
from_string_loop(b, s, i) ==
    LET loop[bb \in Seq(Nat), ii \in Nat] ==
            LET i1 == ii + strspn(s, ii, {",", " "})
                r == from_string_field(bb, s, i1)
            IN IF CharAt(s, i1) = NUL
               THEN Parsed(bb, i1, FALSE)
               ELSE IF r.fatal
               THEN r
               ELSE loop[r.b, r.i]
    IN loop[b, i]

\* The buffer after the call and the value returned, or fatal when
\* ovs_fatal() ended the process.
nx_match_from_string(s, b) ==
    LET start_len == Len(b)
        r == from_string_loop(b, s, 0)
        match_len == Len(r.b) - start_len
    IN IF s = any_string
       THEN [b |-> b, match_len |-> 0, fatal |-> FALSE]
       ELSE IF r.fatal
       THEN [b |-> r.b, match_len |-> 0, fatal |-> TRUE]
       ELSE [b |-> ofpbuf_put_zeros(r.b, ROUND_UP(match_len, 8) - match_len),
             match_len |-> match_len, fatal |-> FALSE]

----------------------------------------------------------------------------
(* The offsets of the pulled region that nx_pull_match() reads.            *)

\* the n offsets from ofs on
Span(ofs, n) == ofs..(ofs + n - 1)

\* the memcpy of the header made before the test of match_len: a decoder of
\* this shape reads past a region that ends with 1 to 3 stray bytes
nx_entry_ok_reads_early(p, match_len) == Span(p, 4)

\* nx_entry_ok(): the memcpy of the header, made when 4 bytes remain
nx_entry_ok_reads(p, match_len) ==
    IF match_len < 4 THEN {} ELSE Span(p, 4)

\* parse_nxm_entry(): what it reads through 'value' and 'mask', which are
\* offsets into the buffer d
parse_nxm_entry_reads(rule, f, d, value, mask) ==
    LET wc == rule.wc
        both == OFPFW_DL_DST \cup FWW_ETH_MCAST
        m == Bytes(d, mask, ETH_ADDR_LEN)
    IN CASE f.index \in {"NXM_OF_IN_PORT", "NXM_OF_ETH_TYPE", "NXM_OF_VLAN_TCI",
                         "NXM_OF_TCP_SRC", "NXM_OF_UDP_SRC", "NXM_OF_TCP_DST",
                         "NXM_OF_UDP_DST", "NXM_OF_ARP_OP"} ->
              Span(value, 2)
         [] f.index = "NXM_OF_VLAN_TCI_W" -> Span(value, 2) \cup Span(mask, 2)
         [] f.index = "NXM_OF_ETH_DST" ->
              IF wc.wildcards \cap both # both
              THEN {}
              ELSE Span(value, ETH_ADDR_LEN)
         [] f.index = "NXM_OF_ETH_DST_W" ->
              IF wc.wildcards \cap both # both
              THEN {}
              ELSE IF m = eth_all_0s \/ m \notin {eth_mcast_1, eth_mcast_0,
                                                  eth_all_1s}
              THEN Span(mask, ETH_ADDR_LEN)
              ELSE Span(mask, ETH_ADDR_LEN) \cup Span(value, ETH_ADDR_LEN)
         [] f.index = "NXM_OF_ETH_SRC" -> Span(value, ETH_ADDR_LEN)
         [] f.index \in {"NXM_OF_IP_TOS", "NXM_OF_IP_PROTO", "NXM_OF_ICMP_TYPE",
                         "NXM_OF_ICMP_CODE"} ->
              Span(value, 1)
         [] f.index \in {"NXM_OF_IP_SRC", "NXM_OF_ARP_SPA"} ->
              IF wc.nw_src_mask # Zero32 THEN {} ELSE Span(value, 4)
         [] f.index \in {"NXM_OF_IP_SRC_W", "NXM_OF_ARP_SPA_W"} ->
              IF wc.nw_src_mask # Zero32
              THEN {}
              ELSE Span(value, 4) \cup Span(mask, 4)
         [] f.index \in {"NXM_OF_IP_DST", "NXM_OF_ARP_TPA"} ->
              IF wc.nw_dst_mask # Zero32 THEN {} ELSE Span(value, 4)
         [] f.index \in {"NXM_OF_IP_DST_W", "NXM_OF_ARP_TPA_W"} ->
              IF wc.nw_dst_mask # Zero32
              THEN {}
              ELSE Span(value, 4) \cup Span(mask, 4)
         [] f.index = "NXM_NX_TUN_ID" -> Span(value, 8)
         [] OTHER ->
              \* parse_nx_reg()
              IF wc.reg_masks[NXM_NX_REG_IDX(f.header)] # Zero32
              THEN {}
              ELSE IF NXM_HASMASK(f.header) = 1
              THEN Span(value, 4) \cup Span(mask, 4)
              ELSE Span(value, 4)

\* the loop body of nx_pull_match(): what it reads of the entry at offset p
pull_entry_reads(rule, d, p, header) ==
    LET length == NXM_LENGTH(header)
        f == nxm_field_lookup(header)
    IN IF f = NULL
       THEN {}
       ELSE IF ~nxm_prereqs_ok(f, rule.flow)
       THEN {}
       ELSE IF f.wildcard # {} /\ rule.wc.wildcards \cap f.wildcard = {}
       THEN {}
       ELSE parse_nxm_entry_reads(rule, f, d, p + 4, p + 4 + length \div 2)

----------------------------------------------------------------------------
(* nxm_check_reg_move(), nxm_check_reg_load(), nxm_execute_reg_move(),     *)
(* nxm_execute_reg_load().  A uint64_t is the function from bit positions  *)
(* 0..63 (0 the least significant) to bits; a uint32_t held in the flow is *)
(* its 4 bytes, most significant first.                                    *)

\* the uint64_t whose value is the number n, 0 <= n < 2^31
u64_of_number(n) == [k \in 0..63 |-> IF k < 31 THEN (n \div 2^k) % 2 ELSE 0]

\* the uint64_t whose value the bytes hold, most significant byte first
u64_of_bytes(bytes) ==
    [k \in 0..63 |->
        IF k \div 8 < Len(bytes)
        THEN (bytes[Len(bytes) - (k \div 8)] \div 2^(k % 8)) % 2
        ELSE 0]

\* byte i (0 the least significant) of the uint64_t v
u64_byte(v, i) ==
    v[8 * i] + 2 * v[8 * i + 1] + 4 * v[8 * i + 2] + 8 * v[8 * i + 3]
    + 16 * v[8 * i + 4] + 32 * v[8 * i + 5] + 64 * v[8 * i + 6]
    + 128 * v[8 * i + 7]

\* the conversion to uint32_t, as 4 bytes
u32_bytes(v) == <<u64_byte(v, 3), u64_byte(v, 2), u64_byte(v, 1), u64_byte(v, 0)>>

\* the conversion to uint16_t, as a number
u16_number(v) == u64_byte(v, 1) * 256 + u64_byte(v, 0)

u64_and(v, w) == [k \in 0..63 |-> v[k] * w[k]]
u64_or(v, w) == [k \in 0..63 |-> IF v[k] + w[k] > 0 THEN 1 ELSE 0]
u64_not(v) == [k \in 0..63 |-> 1 - v[k]]
u64_shl(v, n) == [k \in 0..63 |-> IF k >= n THEN v[k - n] ELSE 0]
u64_shr(v, n) == [k \in 0..63 |-> IF k + n <= 63 THEN v[k + n] ELSE 0]

\* (UINT64_C(1) << n_bits) - 1, UINT64_MAX for n_bits 64
u64_low_bits(n_bits) == [k \in 0..63 |-> IF k < n_bits THEN 1 ELSE 0]

\* the conversion of a uint64_t to uint32_t and back
u64_low32(v) == [k \in 0..63 |-> IF k < 32 THEN v[k] ELSE 0]

eth_addr_to_uint64(ea) == u64_of_bytes(ea)

\* field_ok() without its test of the has-mask flag: a validator of this
\* shape accepts the masked variant of a field
field_ok_masked(f, flow, size) ==
    /\ f # NULL
    /\ nxm_prereqs_ok(f, flow)
    /\ size <= nxm_field_bits(f.header)

field_ok(f, flow, size) ==
    /\ f # NULL
    /\ NXM_HASMASK(f.header) = 0
    /\ nxm_prereqs_ok(f, flow)
    /\ size <= nxm_field_bits(f.header)

\* nxm_check_reg_move() without its test of the destination's kind: a
\* validator of this shape accepts a destination that cannot be stored
nxm_check_reg_move_any_dst(action, flow) ==
    IF action.n_bits = 0
    THEN BAD_ARGUMENT
    ELSE IF ~field_ok(nxm_field_lookup(action.src), flow,
                      action.src_ofs + action.n_bits)
    THEN BAD_ARGUMENT
    ELSE IF ~field_ok(nxm_field_lookup(action.dst), flow,
                      action.dst_ofs + action.n_bits)
    THEN BAD_ARGUMENT
    ELSE NO_ERROR

\* an nx_action_reg_move: n_bits, src_ofs, dst_ofs, src, dst
nxm_check_reg_move(action, flow) ==
    LET src == nxm_field_lookup(action.src)
        dst == nxm_field_lookup(action.dst)
    IN IF action.n_bits = 0
       THEN BAD_ARGUMENT
       ELSE IF ~field_ok(src, flow, action.src_ofs + action.n_bits)
       THEN BAD_ARGUMENT
       ELSE IF ~field_ok(dst, flow, action.dst_ofs + action.n_bits)
       THEN BAD_ARGUMENT
       ELSE IF /\ ~NXM_IS_NX_REG(dst.header)
               /\ dst.header # NXM_OF_VLAN_TCI
               /\ dst.header # NXM_NX_TUN_ID
       THEN BAD_ARGUMENT
       ELSE NO_ERROR

\* nxm_check_reg_load() without its test of the value: a validator of this
\* shape accepts a literal wider than the declared bit count
nxm_check_reg_load_any_value(action, flow) ==
    LET ofs == action.ofs_nbits \div 64
        n_bits == (action.ofs_nbits % 64) + 1
        dst == nxm_field_lookup(action.dst)
    IN IF ~field_ok(dst, flow, ofs + n_bits)
       THEN BAD_ARGUMENT
       ELSE IF ~NXM_IS_NX_REG(dst.header)
       THEN BAD_ARGUMENT
       ELSE NO_ERROR

\* an nx_action_reg_load: ofs_nbits, dst, value (8 bytes)
nxm_check_reg_load(action, flow) ==
    LET ofs == action.ofs_nbits \div 64
        n_bits == (action.ofs_nbits % 64) + 1
        dst == nxm_field_lookup(action.dst)
        value == u64_of_bytes(action.value)
    IN IF ~field_ok(dst, flow, ofs + n_bits)
       THEN BAD_ARGUMENT
       ELSE IF n_bits < 64 /\ \E k \in n_bits..63 : value[k] = 1
       THEN BAD_ARGUMENT
       ELSE IF ~NXM_IS_NX_REG(dst.header)
       THEN BAD_ARGUMENT
       ELSE NO_ERROR

\* what a call that met NOT_REACHED() yields in place of a uint64_t: no bit
\* of a value is 2
NOT_REACHED == [k \in 0..63 |-> 2]

\* the uint64_t read, or NOT_REACHED
nxm_read_field(src, flow) ==
    CASE src.index = "NXM_OF_IN_PORT" ->
           u64_of_number(IF flow.in_port = ODPP_LOCAL
                         THEN OFPP_LOCAL
                         ELSE flow.in_port)
      [] src.index = "NXM_OF_ETH_DST" -> eth_addr_to_uint64(flow.dl_dst)
      [] src.index = "NXM_OF_ETH_SRC" -> eth_addr_to_uint64(flow.dl_src)
      [] src.index = "NXM_OF_ETH_TYPE" -> u64_of_number(flow.dl_type)
      [] src.index = "NXM_OF_VLAN_TCI" ->
           IF flow.dl_vlan = OFP_VLAN_NONE
           THEN u64_of_number(0)
           ELSE u64_of_number((flow.dl_vlan % (VLAN_VID_MASK + 1))
                              + ((flow.dl_vlan_pcp % 8) * 2^VLAN_PCP_SHIFT)
                              + VLAN_CFI)
      [] src.index = "NXM_OF_IP_TOS" -> u64_of_number(flow.nw_tos)
      [] src.index \in {"NXM_OF_IP_PROTO", "NXM_OF_ARP_OP"} ->
           u64_of_number(flow.nw_proto)
      [] src.index \in {"NXM_OF_IP_SRC", "NXM_OF_ARP_SPA"} ->
           u64_of_bytes(flow.nw_src)
      [] src.index \in {"NXM_OF_IP_DST", "NXM_OF_ARP_TPA"} ->
           u64_of_bytes(flow.nw_dst)
      [] src.index \in {"NXM_OF_TCP_SRC", "NXM_OF_UDP_SRC"} ->
           u64_of_number(flow.tp_src)
      [] src.index \in {"NXM_OF_TCP_DST", "NXM_OF_UDP_DST"} ->
           u64_of_number(flow.tp_dst)
      [] src.index = "NXM_OF_ICMP_TYPE" -> u64_of_number(flow.tp_src % 256)
      [] src.index = "NXM_OF_ICMP_CODE" -> u64_of_number(flow.tp_dst % 256)
      [] src.index = "NXM_NX_TUN_ID" -> u64_of_bytes(flow.tun_id)
      [] /\ NXM_IS_NX_REG(src.header)
         /\ NXM_NX_REG_IDX(src.header) < FLOW_N_REGS ->
           u64_of_bytes(flow.regs[NXM_NX_REG_IDX(src.header)])
      [] OTHER -> NOT_REACHED

\* the flow after the call, and whether a NOT_REACHED() was met or a shift
\* count was out of range
Executed(flow, ok) == [flow |-> flow, ok |-> ok]

nxm_execute_reg_move(action, flow) ==
    LET n_bits == action.n_bits
        mask == u64_low_bits(n_bits)
        src == nxm_field_lookup(action.src)
        src_ofs == action.src_ofs
        src_value == nxm_read_field(src, flow)
        src_data == u64_and(src_value, u64_shl(mask, src_ofs))
        dst == nxm_field_lookup(action.dst)
        dst_ofs == action.dst_ofs
        dst_value == nxm_read_field(dst, flow)
        dst_data == u64_and(dst_value, u64_not(u64_shl(mask, dst_ofs)))
        new_data == u64_or(dst_data,
                           u64_shl(u64_shr(src_data, src_ofs), dst_ofs))
        vlan_tci == IF new_data[12] = 1 THEN u16_number(new_data) ELSE 0
    IN IF src = NULL \/ dst = NULL
       THEN Executed(flow, FALSE)
       ELSE IF src_value = NOT_REACHED \/ dst_value = NOT_REACHED
       THEN Executed(flow, FALSE)
       ELSE IF n_bits > 64 \/ src_ofs > 63 \/ dst_ofs > 63
       THEN Executed(flow, FALSE)
       ELSE IF NXM_IS_NX_REG(dst.header)
       THEN Executed([flow EXCEPT !.regs[NXM_NX_REG_IDX(dst.header)] =
                                      u32_bytes(new_data)], TRUE)
       ELSE IF dst.header = NXM_OF_VLAN_TCI
       THEN Executed([flow EXCEPT !.dl_vlan = vlan_tci_to_vid(vlan_tci),
                                  !.dl_vlan_pcp = vlan_tci_to_pcp(vlan_tci)],
                     TRUE)
       ELSE IF dst.header = NXM_NX_TUN_ID
       THEN Executed([flow EXCEPT !.tun_id = u32_bytes(new_data)], TRUE)
       ELSE Executed(flow, FALSE)

\* nxm_execute_reg_load() without the clearing of the destination's bit range:
\* an execution of this shape can set bits but not clear them
nxm_execute_reg_load_or(action, flow) ==
    LET n_bits == (action.ofs_nbits % 64) + 1
        idx == NXM_NX_REG_IDX(action.dst)
        src_data == u64_low32(u64_of_bytes(action.value))
        dst_ofs == action.ofs_nbits \div 64
        reg == u64_of_bytes(flow.regs[idx])
    IN IF idx >= FLOW_N_REGS \/ dst_ofs >= 32 \/ n_bits > 32
       THEN Executed(flow, FALSE)
       ELSE Executed([flow EXCEPT !.regs[idx] =
                         u32_bytes(u64_or(reg, u64_shl(src_data, dst_ofs)))],
                     TRUE)

nxm_execute_reg_load(action, flow) ==
    LET n_bits == (action.ofs_nbits % 64) + 1
        mask == u64_low32(u64_low_bits(n_bits))
        idx == NXM_NX_REG_IDX(action.dst)
        src_data == u64_low32(u64_of_bytes(action.value))
        dst_ofs == action.ofs_nbits \div 64
        reg == u64_of_bytes(flow.regs[idx])
        dst_data == u64_and(reg, u64_not(u64_shl(mask, dst_ofs)))
    IN IF idx >= FLOW_N_REGS \/ dst_ofs >= 32 \/ n_bits > 32
       THEN Executed(flow, FALSE)
       ELSE Executed([flow EXCEPT !.regs[idx] =
                         u32_bytes(u64_or(dst_data,
                                          u64_shl(src_data, dst_ofs)))],
                     TRUE)

----------------------------------------------------------------------------
(* The state: one caller that decodes a message with nx_pull_match(),      *)
(* encodes the rule it got with nx_put_match() and decodes the emitted     *)
(* bytes again.                                                            *)

VARIABLES
    msg,        \* the bytes of the message the caller received
    arg_len,    \* the match_len argument of nx_pull_match()
    priority,   \* the priority argument of nx_pull_match()
    b,          \* the ofpbuf nx_pull_match() pulls from: its remaining data
    d,          \* the region ofpbuf_try_pull() returned, which p points into
    p,          \* nx_pull_match(): offset of the next entry in d
    match_len,  \* nx_pull_match(): declared bytes that remain
    header,     \* nx_pull_match(): header of the entry examined last
    rule,       \* the cls_rule nx_pull_match() fills in
    error,      \* the value nx_pull_match() returned, "running" before that
    cr,         \* the rule given to nx_put_match()
    out,        \* the ofpbuf nx_put_match() appends to
    start_len,  \* nx_put_match(): size of out at entry
    put_len,    \* the value nx_put_match() returned
    pass,       \* 1: decoding msg, 2: decoding what nx_put_match() emitted
    pc,         \* "start", "loop", "returned"
    reads,      \* nx_pull_match(): the offsets of d that were read
    text,       \* the string nx_match_to_string() returned
    action,     \* the nx_action_reg_move or nx_action_reg_load given
    flow,       \* the flow that the action is checked against and changes
    checked,    \* what nxm_check_reg_move() or nxm_check_reg_load() returned
    all_nxm_fields, \* the hash table: how often each field is in it
    threads,    \* each thread's position in nxm_field_lookup()
    keys,       \* mutate_scalar(): dst->keys, the integers it mutates
    arg,        \* mutate_scalar(): the integer argument of the mutation
    mutate_error \* the value mutate_scalar() returned, "running" before that

\* the state of nx_pull_match() and nx_put_match() and of their caller
match_vars == <<msg, arg_len, priority, b, d, p, match_len, header, rule,
                error, cr, out, start_len, put_len, pass, pc, reads>>

\* the state of the bit-range actions
reg_vars == <<action, flow, checked>>

\* the state of the registry's construction
init_vars == <<all_nxm_fields, threads>>

\* the state of a scalar mutation
mutation_vars == <<keys, arg, mutate_error>>

vars == <<match_vars, text, reg_vars, init_vars, mutation_vars>>

RUNNING == "running"

\* no string was made, no action was given, no thread has started
NoText == text = <<>>
NoAction == action = <<>> /\ flow = <<>> /\ checked = RUNNING
NoThreads == all_nxm_fields = <<>> /\ threads = <<>>
NoMutation == keys = <<>> /\ arg = <<>> /\ mutate_error = RUNNING

\* The caller holds a message and is about to decode match of it.
InitPull(in) ==
    /\ msg = in.msg
    /\ arg_len = in.match_len
    /\ priority = in.priority
    /\ b = in.msg
    /\ d = <<>>
    /\ p = 0
    /\ match_len = in.match_len
    /\ header = NO_HEADER
    /\ rule = cls_rule_init_catchall(0)
    /\ error = RUNNING
    /\ cr = cls_rule_init_catchall(0)
    /\ out = in.out
    /\ start_len = Len(in.out)
    /\ put_len = 0
    /\ pass = 1
    /\ pc = "start"
    /\ reads = {}
    /\ NoText /\ NoAction /\ NoThreads /\ NoMutation

\* The caller holds a rule of its own and is about to encode it.
InitPut(in) ==
    /\ msg = <<>>
    /\ arg_len = 0
    /\ priority = in.rule.priority
    /\ b = <<>>
    /\ d = <<>>
    /\ p = 0
    /\ match_len = 0
    /\ header = NO_HEADER
    /\ rule = in.rule
    /\ error = NO_ERROR
    /\ cr = in.rule
    /\ out = in.out
    /\ start_len = Len(in.out)
    /\ put_len = 0
    /\ pass = 1
    /\ pc = "returned"
    /\ reads = {}
    /\ NoText /\ NoAction /\ NoThreads /\ NoMutation

\* nx_pull_match() up to its loop: ofpbuf_try_pull() and the catch-all rule.
PullStart ==
    /\ pc = "start"
    /\ LET len == IF pass = 1 THEN arg_len ELSE put_len
           n == ROUND_UP(len, 8)
       IN IF Len(b) < n
          THEN /\ error' = OFPBRC_BAD_LEN
               /\ pc' = "returned"
               /\ UNCHANGED <<b, d, p, match_len, rule>>
          ELSE /\ d' = SubSeq(b, 1, n)
               /\ b' = SubSeq(b, n + 1, Len(b))
               /\ p' = 0
               /\ match_len' = len
               /\ rule' = cls_rule_init_catchall(priority)
               /\ error' = RUNNING
               /\ pc' = "loop"
    /\ header' = NO_HEADER
    /\ reads' = {}
    /\ UNCHANGED <<msg, arg_len, priority, cr, out, start_len, put_len, pass>>
    /\ UNCHANGED <<text, reg_vars, init_vars, mutation_vars>>

\* One turn of the loop of nx_pull_match(): nx_entry_ok() returned a header.
PullEntry ==
    /\ pc = "loop"
    /\ nx_entry_ok(d, p, match_len) # NO_HEADER
    /\ LET h == nx_entry_ok(d, p, match_len)
           length == NXM_LENGTH(h)
           r == pull_entry(rule, d, p, h)
       IN /\ header' = h
          /\ rule' = r.rule
          /\ IF r.error # NO_ERROR
             THEN /\ error' = r.error
                  /\ pc' = "returned"
                  /\ UNCHANGED <<p, match_len>>
             ELSE /\ p' = p + 4 + length
                  /\ match_len' = match_len - (4 + length)
                  /\ UNCHANGED <<error, pc>>
    /\ reads' = reads \cup nx_entry_ok_reads(p, match_len)
                     \cup pull_entry_reads(rule, d, p,
                                           nx_entry_ok(d, p, match_len))
    /\ UNCHANGED <<msg, arg_len, priority, b, d, cr, out, start_len, put_len,
                   pass>>
    /\ UNCHANGED <<text, reg_vars, init_vars, mutation_vars>>

\* The loop of nx_pull_match() ends: nx_entry_ok() returned 0.
PullEnd ==
    /\ pc = "loop"
    /\ nx_entry_ok(d, p, match_len) = NO_HEADER
    /\ header' = NO_HEADER
    /\ error' = IF match_len # 0 THEN NXM_INVALID ELSE NO_ERROR
    /\ pc' = "returned"
    /\ reads' = reads \cup nx_entry_ok_reads(p, match_len)
    /\ UNCHANGED <<msg, arg_len, priority, b, d, p, match_len, rule, cr, out,
                   start_len, put_len, pass>>
    /\ UNCHANGED <<text, reg_vars, init_vars, mutation_vars>>

\* nx_put_match() of the rule decoded, after which the caller decodes the
\* bytes that were appended, with the length that was returned.
Put ==
    /\ pc = "returned"
    /\ pass = 1
    /\ error = NO_ERROR
    /\ LET r == nx_put_match(out, rule)
       IN /\ out' = r.b
          /\ put_len' = r.match_len
          /\ b' = SubSeq(r.b, Len(out) + 1, Len(r.b))
    /\ start_len' = Len(out)
    /\ cr' = rule
    /\ pass' = 2
    /\ error' = RUNNING
    /\ pc' = "start"
    /\ UNCHANGED <<msg, arg_len, priority, d, p, match_len, header, rule,
                   reads>>
    /\ UNCHANGED <<text, reg_vars, init_vars, mutation_vars>>

Next == PullStart \/ PullEntry \/ PullEnd \/ Put

----------------------------------------------------------------------------
(* The messages and rules the caller starts from.                          *)

\* most entries that follow the prerequisite entries of a message
MaxBody == 2

RECURSIVE Concat(_)
Concat(ss) == IF ss = <<>> THEN <<>> ELSE Head(ss) \o Concat(Tail(ss))

\* A message: the entries and the tail, zero-padded to a multiple of 8
\* bytes, less the last 'cut' bytes; match_len declares entries and tail.
Message(entries, tail, cut, prio, out0) ==
    LET body == Concat(entries) \o tail
        n == Len(body)
        full == body \o Zeros(ROUND_UP(n, 8) - n)
        keep == IF cut > Len(full) THEN 0 ELSE Len(full) - cut
    IN [msg |-> SubSeq(full, 1, keep), match_len |-> n, priority |-> prio,
        out |-> out0]

\* prefix \o body for every body of at most n entries of pool
Messages(prefixes, pool, n, tails, cuts, prios, outs) ==
    { Message(pre \o body, tail, cut, prio, out0) :
        pre \in prefixes,
        body \in UNION { [1..k -> pool] : k \in 0..n },
        tail \in tails, cut \in cuts, prio \in prios, out0 \in outs }

E_IN_PORT(v) == NXM_OF_IN_PORT \o Be16(v)
E_ETH_TYPE(v) == NXM_OF_ETH_TYPE \o Be16(v)
E_IP_PROTO(v) == NXM_OF_IP_PROTO \o <<v>>
MAC1 == <<1, 35, 69, 103, 137, 171>>
MAC2 == <<2, 0, 0, 0, 0, 9>>
IP1 == <<10, 0, 0, 1>>
IP2 == <<192, 168, 1, 0>>
MASK24 == <<255, 255, 255, 0>>
BADMASK == <<255, 0, 255, 0>>
REGV == <<222, 173, 190, 239>>
REGM == <<0, 255, 15, 0>>

\* entries that later entries have as prerequisites
PrereqPrefixes ==
    { <<>>,
      <<E_ETH_TYPE(ETH_TYPE_IP)>>,
      <<E_ETH_TYPE(ETH_TYPE_ARP)>>,
      <<E_ETH_TYPE(ETH_TYPE_IP), E_IP_PROTO(IP_TYPE_TCP)>>,
      <<E_ETH_TYPE(ETH_TYPE_IP), E_IP_PROTO(IP_TYPE_UDP)>>,
      <<E_ETH_TYPE(ETH_TYPE_IP), E_IP_PROTO(IP_TYPE_ICMP)>> }

\* one or two entries of every field family, good and bad
Pool ==
    { E_IN_PORT(1),
      E_IN_PORT(OFPP_LOCAL),
      NXM_OF_ETH_DST \o MAC1,
      NXM_OF_ETH_DST_W \o MAC1 \o eth_mcast_1,
      NXM_OF_ETH_DST_W \o MAC1 \o <<15, 255, 255, 255, 255, 255>>,
      NXM_OF_ETH_SRC \o MAC2,
      E_ETH_TYPE(ETH_TYPE_IP),
      NXM_OF_VLAN_TCI \o Be16(VLAN_CFI + 8192 + 291),
      NXM_OF_VLAN_TCI \o Be16(1),
      NXM_OF_VLAN_TCI_W \o Be16(VLAN_CFI + 291) \o Be16(8191),
      NXM_OF_IP_TOS \o <<252>>,
      NXM_OF_IP_TOS \o <<3>>,
      E_IP_PROTO(IP_TYPE_TCP),
      NXM_OF_IP_SRC \o IP1,
      NXM_OF_IP_SRC_W \o IP2 \o MASK24,
      NXM_OF_IP_DST_W \o IP2 \o BADMASK,
      NXM_OF_TCP_SRC \o Be16(80),
      NXM_OF_UDP_DST \o Be16(53),
      NXM_OF_ICMP_TYPE \o <<8>>,
      NXM_OF_ARP_OP \o Be16(1),
      NXM_OF_ARP_OP \o Be16(256),
      NXM_OF_ARP_TPA \o IP1,
      NXM_NX_TUN_ID \o <<0, 0, 0, 1, 0, 0, 0, 42>>,
      NXM_NX_REG(0) \o REGV,
      NXM_NX_REG_W(1) \o REGV \o REGM,
      NXM_HEADER(2, 0, 2) \o <<0, 0>> }

Inputs ==
    Messages(PrereqPrefixes, Pool, MaxBody, {<<>>}, {0}, {7}, {<<>>})

Init == \E in \in Inputs : InitPull(in)

Spec == Init /\ [][Next]_vars

----------------------------------------------------------------------------
(* What a message says, read off its bytes alone.                          *)

\* the offsets, from q on, of the entries that tile the first n bytes of buf
RECURSIVE EntryOffsets(_, _, _)
EntryOffsets(buf, q, n) ==
    IF n - q >= 4 /\ buf[q + 4] # 0 /\ q + 4 + buf[q + 4] <= n
    THEN <<q>> \o EntryOffsets(buf, q + 4 + buf[q + 4], n)
    ELSE <<>>

\* the length the decoder was given in this pass
PassLen == IF pass = 1 THEN arg_len ELSE put_len

\* the offset of the entry the loop examined last
LastOfs == IF error = RUNNING THEN p - 4 - NXM_LENGTH(header) ELSE p

\* the offsets of the entries before the one examined last
Earlier == EntryOffsets(d, 0, LastOfs)

\* the loop has examined an entry and the state is the one it left
Examined == pc \in {"loop", "returned"} /\ header # NO_HEADER

HeaderAt(q) == Bytes(d, q, 4)

\* two headers name the same field: an exact header and its masked variant
SameField(h1, h2) ==
    NXM_VENDOR(h1) = NXM_VENDOR(h2) /\ NXM_FIELD(h1) = NXM_FIELD(h2)

\* the entry at q has no mask, or a mask with some bit set
AssertsSomething(q) ==
    LET h == HeaderAt(q)
        w == NXM_LENGTH(h) \div 2
    IN NXM_HASMASK(h) = 0 \/ Bytes(d, q + 4 + w, w) # Zeros(w)

\* the number of entries of the message the caller received
NEntries == Len(EntryOffsets(msg, 0, arg_len))

----------------------------------------------------------------------------
(* C1.  Round trip: a rule that nx_pull_match() returned with success,     *)
(* encoded by nx_put_match() and decoded again at the same priority, comes *)
(* back with success and equal field for field.                            *)

C1_RoundTrip ==
    (pc = "returned" /\ pass = 2) => (error = NO_ERROR /\ rule = cr)

----------------------------------------------------------------------------
(* Messages that name one field more than once: the entries a field's      *)
(* prerequisites need, then entries that all name that field.              *)

\* most entries of a message that name the same field
MaxDup == 2

PRE_IP == <<E_ETH_TYPE(ETH_TYPE_IP)>>
PRE_TCP == <<E_ETH_TYPE(ETH_TYPE_IP), E_IP_PROTO(IP_TYPE_TCP)>>
PRE_UDP == <<E_ETH_TYPE(ETH_TYPE_IP), E_IP_PROTO(IP_TYPE_UDP)>>
PRE_ICMP == <<E_ETH_TYPE(ETH_TYPE_IP), E_IP_PROTO(IP_TYPE_ICMP)>>
PRE_ARP == <<E_ETH_TYPE(ETH_TYPE_ARP)>>

\* exact and masked entries of a 32-bit field, zero and bad masks included
Family32(exact, wild) ==
    { exact \o IP1, exact \o Zero32, wild \o IP2 \o MASK24,
      wild \o IP1 \o Zero32, wild \o IP1 \o Ones32 }

DupFamilies ==
    { [pre |-> <<>>, fam |-> {E_IN_PORT(1), E_IN_PORT(2)}],
      [pre |-> <<>>,
       fam |-> {NXM_OF_ETH_DST \o MAC1, NXM_OF_ETH_DST \o MAC2,
                NXM_OF_ETH_DST_W \o MAC1 \o eth_mcast_1,
                NXM_OF_ETH_DST_W \o MAC2 \o eth_mcast_0,
                NXM_OF_ETH_DST_W \o MAC1 \o eth_all_1s,
                NXM_OF_ETH_DST_W \o MAC1 \o eth_all_0s}],
      [pre |-> <<>>,
       fam |-> {NXM_OF_ETH_SRC \o MAC1, NXM_OF_ETH_SRC \o MAC2}],
      [pre |-> <<>>,
       fam |-> {E_ETH_TYPE(ETH_TYPE_IP), E_ETH_TYPE(ETH_TYPE_ARP)}],
      [pre |-> <<>>,
       fam |-> {NXM_OF_VLAN_TCI \o Be16(0),
                NXM_OF_VLAN_TCI \o Be16(VLAN_CFI + 291),
                NXM_OF_VLAN_TCI_W \o Be16(VLAN_CFI + 291) \o Be16(8191),
                NXM_OF_VLAN_TCI_W \o Be16(VLAN_CFI + 8192) \o Be16(61440),
                NXM_OF_VLAN_TCI_W \o Be16(291) \o Be16(0)}],
      [pre |-> PRE_IP,
       fam |-> {NXM_OF_IP_TOS \o <<252>>, NXM_OF_IP_TOS \o <<0>>}],
      [pre |-> PRE_IP,
       fam |-> {E_IP_PROTO(IP_TYPE_TCP), E_IP_PROTO(0)}],
      [pre |-> PRE_IP, fam |-> Family32(NXM_OF_IP_SRC, NXM_OF_IP_SRC_W)],
      [pre |-> PRE_IP, fam |-> Family32(NXM_OF_IP_DST, NXM_OF_IP_DST_W)],
      [pre |-> PRE_TCP,
       fam |-> {NXM_OF_TCP_SRC \o Be16(80), NXM_OF_TCP_SRC \o Be16(0)}],
      [pre |-> PRE_TCP,
       fam |-> {NXM_OF_TCP_DST \o Be16(80), NXM_OF_TCP_DST \o Be16(0)}],
      [pre |-> PRE_UDP,
       fam |-> {NXM_OF_UDP_SRC \o Be16(53), NXM_OF_UDP_SRC \o Be16(0)}],
      [pre |-> PRE_UDP,
       fam |-> {NXM_OF_UDP_DST \o Be16(53), NXM_OF_UDP_DST \o Be16(0)}],
      [pre |-> PRE_ICMP,
       fam |-> {NXM_OF_ICMP_TYPE \o <<8>>, NXM_OF_ICMP_TYPE \o <<0>>}],
      [pre |-> PRE_ICMP,
       fam |-> {NXM_OF_ICMP_CODE \o <<1>>, NXM_OF_ICMP_CODE \o <<0>>}],
      [pre |-> PRE_ARP,
       fam |-> {NXM_OF_ARP_OP \o Be16(1), NXM_OF_ARP_OP \o Be16(0)}],
      [pre |-> PRE_ARP, fam |-> Family32(NXM_OF_ARP_SPA, NXM_OF_ARP_SPA_W)],
      [pre |-> PRE_ARP, fam |-> Family32(NXM_OF_ARP_TPA, NXM_OF_ARP_TPA_W)],
      [pre |-> <<>>,
       fam |-> {NXM_NX_TUN_ID \o Zeros(8),
                NXM_NX_TUN_ID \o <<0, 0, 0, 1, 0, 0, 0, 42>>}],
      [pre |-> <<>>,
       fam |-> {NXM_NX_REG(0) \o REGV, NXM_NX_REG(0) \o Zero32,
                NXM_NX_REG_W(0) \o REGV \o REGM,
                NXM_NX_REG_W(0) \o REGV \o Zero32}],
      [pre |-> <<>>,
       fam |-> {NXM_NX_REG(2) \o REGV, NXM_NX_REG_W(2) \o REGV \o REGM,
                NXM_NX_REG_W(2) \o REGV \o Zero32}] }

DupInputs ==
    UNION { Messages({df.pre}, df.fam, MaxDup, {<<>>}, {0}, {7}, {<<>>}) :
              df \in DupFamilies }

InitDup == \E in \in DupInputs : InitPull(in)

SpecDup == InitDup /\ [][Next]_vars

\* an earlier entry names the field of the entry examined last and
\* asserts something
AssertedIn(e) ==
    \E i \in 1..Len(e) :
        SameField(HeaderAt(e[i]), header) /\ AssertsSomething(e[i])

AssertedEarlier == AssertedIn(Earlier)

\* some field is named by two entries of the message received
NamedTwice ==
    LET qs == EntryOffsets(msg, 0, arg_len)
    IN \E i, j \in 1..Len(qs) :
          i < j /\ SameField(Bytes(msg, qs[i], 4), Bytes(msg, qs[j], 4))

(* C2 as claimed: a message in which two entries name the same field, its  *)
(* prerequisites met and its lengths well-formed, is rejected with         *)
(* NXM_DUP_TYPE whatever the values and masks.                             *)
C2_DupAlways ==
    (pass = 1 /\ pc = "returned" /\ NamedTwice) => error = NXM_DUP_TYPE

(* C2 as amended: the entry the decoder examines is rejected with          *)
(* NXM_DUP_TYPE exactly when an earlier entry of the buffer names the same *)
(* field with no mask or with a mask that has some bit set; an earlier     *)
(* masked entry whose mask is all-zero asserts nothing and does not make a *)
(* later entry for the field a duplicate.                                  *)
C2_DupExactly ==
    Examined => (error = NXM_DUP_TYPE <=> AssertedEarlier)

\* a masked entry was met after an exact one for the same field, and
\* rejected as a duplicate
C2_Witness ==
    /\ Examined
    /\ error = NXM_DUP_TYPE
    /\ NXM_HASMASK(header) = 1
    /\ AssertedEarlier

----------------------------------------------------------------------------
(* Messages about prerequisites: the fields that set the Ethernet type and *)
(* the IP protocol and fields that need them, in every order.              *)

PrereqPool ==
    { E_ETH_TYPE(ETH_TYPE_IP),
      E_ETH_TYPE(ETH_TYPE_ARP),
      E_IP_PROTO(IP_TYPE_TCP),
      E_IP_PROTO(IP_TYPE_UDP),
      NXM_OF_TCP_SRC \o Be16(80),
      NXM_OF_UDP_SRC \o Be16(53),
      NXM_OF_ICMP_CODE \o <<3>>,
      NXM_OF_IP_TOS \o <<252>>,
      NXM_OF_IP_TOS \o <<3>>,
      NXM_OF_IP_DST \o IP1,
      NXM_OF_ARP_OP \o Be16(2),
      NXM_HEADER(0, 9, 4) \o Zero32 }

PrereqInputs ==
    Messages(PrereqPrefixes, PrereqPool, MaxBody, {<<>>}, {0}, {7}, {<<>>})

InitPrereq == \E in \in PrereqInputs : InitPull(in)

SpecPrereq == InitPrereq /\ [][Next]_vars

\* the registry's descriptor of the entry examined last
LastField == nxm_field_lookup(header)

\* an earlier entry of the buffer is an NXM_OF_ETH_TYPE entry with value
\* dl_type and, when nw_proto is nonzero, another is an NXM_OF_IP_PROTO
\* entry with value nw_proto
SetIn(e, dl_type, nw_proto) ==
    /\ \E i \in 1..Len(e) :
          /\ HeaderAt(e[i]) = NXM_OF_ETH_TYPE
          /\ get_unaligned_u16(d, e[i] + 4) = dl_type
    /\ \/ nw_proto = 0
       \/ \E i \in 1..Len(e) :
             /\ HeaderAt(e[i]) = NXM_OF_IP_PROTO
             /\ get_u8(d, e[i] + 4) = nw_proto

SetEarlier(dl_type, nw_proto) == SetIn(Earlier, dl_type, nw_proto)

\* the entry examined last has a prerequisite
NeedsPrereq == LastField # NULL /\ LastField.dl_type # 0

\* the prerequisite of field f is established by the entries at offsets e
PrereqIn(e, f) == f.dl_type = 0 \/ SetIn(e, f.dl_type, f.nw_proto)

TransportPorts ==
    {NXM_OF_TCP_SRC, NXM_OF_TCP_DST, NXM_OF_UDP_SRC, NXM_OF_UDP_DST}

(* C3.  An entry whose field has a prerequisite is rejected with           *)
(* NXM_BAD_PREREQ exactly when no earlier entry of the same buffer set the *)
(* Ethernet type (and the IP protocol) to the value its field requires; a  *)
(* transport-port entry that follows the entries it requires, and is the   *)
(* first for its field, is accepted.                                       *)
C3_PrereqOrder ==
    Examined =>
        LET f == LastField
            e == Earlier
        IN (f # NULL /\ f.dl_type # 0) =>
              /\ error = NXM_BAD_PREREQ <=> ~PrereqIn(e, f)
              /\ ( /\ header \in TransportPorts
                   /\ PrereqIn(e, f)
                   /\ ~AssertedIn(e) ) => error = RUNNING

\* a transport-port entry was rejected because the IP-protocol entry comes
\* after it in the buffer
C3_Witness ==
    /\ Examined
    /\ header \in TransportPorts
    /\ error = NXM_BAD_PREREQ
    /\ SetEarlier(ETH_TYPE_IP, 0)
    /\ \E i \in 1..Len(EntryOffsets(d, 0, PassLen)) :
          /\ EntryOffsets(d, 0, PassLen)[i] > LastOfs
          /\ HeaderAt(EntryOffsets(d, 0, PassLen)[i]) = NXM_OF_IP_PROTO
          /\ get_u8(d, EntryOffsets(d, 0, PassLen)[i] + 4)
                 = LastField.nw_proto

\* an earlier entry names a field with the wildcard bit of the entry
\* examined last
WildcardClearedIn(e, f) ==
    /\ f.wildcard # {}
    /\ \E i \in 1..Len(e) :
          nxm_field_lookup(HeaderAt(e[i])).wildcard = f.wildcard

WildcardClearedEarlier == WildcardClearedIn(Earlier, LastField)

(* C5.  The decoder returns at the first entry that fails, with that       *)
(* entry's error, chosen in this order: a header that is not in the        *)
(* registry gives NXM_BAD_TYPE, else a prerequisite that no earlier entry  *)
(* established gives NXM_BAD_PREREQ, else a wildcard bit that an earlier   *)
(* entry cleared gives NXM_DUP_TYPE, else the error is the field's own.    *)
C5_Precedence ==
    Examined =>
        /\ LET f == LastField
               e == Earlier
           IN IF f = NULL
              THEN error = NXM_BAD_TYPE
              ELSE IF ~PrereqIn(e, f)
              THEN error = NXM_BAD_PREREQ
              ELSE IF WildcardClearedIn(e, f)
              THEN error = NXM_DUP_TYPE
              ELSE error \notin {NXM_BAD_TYPE, NXM_BAD_PREREQ}
        /\ error # RUNNING => (pc = "returned" /\ HeaderAt(p) = header)
        /\ error = RUNNING => pc = "loop"

\* NXM_OF_TCP_SRC after IP_PROTO=UDP and NXM_OF_UDP_SRC: the prerequisite
\* fails and the wildcard bit is already cleared
C5_Witness ==
    /\ Examined
    /\ header = NXM_OF_TCP_SRC
    /\ ~SetEarlier(LastField.dl_type, LastField.nw_proto)
    /\ WildcardClearedEarlier
    /\ error = NXM_BAD_PREREQ


----------------------------------------------------------------------------
(* C4: the entries must tile the declared length.                          *)

\* what can follow the last complete entry: nothing, a partial header, a
\* header whose length is 0, an entry that is longer than what remains
LenTails ==
    { <<>>,
      <<0>>,
      <<0, 0, 6>>,
      <<0, 0, 0, 0>>,
      <<0, 0, 6, 0>>,
      <<0, 0, 6, 0, 8, 0>>,
      NXM_OF_ETH_TYPE,
      NXM_OF_ETH_SRC \o <<2, 0, 0>> }

LenPool ==
    { E_IN_PORT(1),
      E_ETH_TYPE(ETH_TYPE_IP),
      NXM_OF_ETH_SRC \o MAC2,
      NXM_OF_IP_TOS \o <<252>>,
      NXM_NX_REG_W(1) \o REGV \o REGM }

\* the buffer holds the whole padded match, or 8 bytes less
LenInputs == Messages({<<>>}, LenPool, MaxBody, LenTails, {0, 8}, {7}, {<<>>})

InitLen == \E in \in LenInputs : InitPull(in)

SpecLen == InitLen /\ [][Next]_vars

\* the offset at which the complete entries of the declared region end
TiledEnd ==
    LET offs == EntryOffsets(d, 0, PassLen)
    IN IF offs = <<>>
       THEN 0
       ELSE offs[Len(offs)] + 4 + d[offs[Len(offs)] + 4]

\* C4: nx_pull_match() succeeds only if the entries exactly tile the
\* declared match_len.  When no entry was rejected, the loop ends where the
\* complete entries end, and the result is NXM_INVALID if declared bytes
\* remain there (1 to 3 bytes, a header whose payload length is 0, or an
\* entry that is longer than what remains) and success if none remain; an
\* entry is rejected only if it is one of the complete entries.
C4_ExactTiling ==
    (pc = "returned" /\ error # OFPBRC_BAD_LEN) =>
        LET rest == PassLen - TiledEnd
        IN /\ error = NO_ERROR => rest = 0
           /\ header = NO_HEADER =>
                 /\ p = TiledEnd
                 /\ match_len = rest
                 /\ error = IF rest # 0 THEN NXM_INVALID ELSE NO_ERROR
           /\ header # NO_HEADER =>
                 /\ p < TiledEnd
                 /\ header = Bytes(d, p, 4)
                 /\ p + 4 + NXM_LENGTH(header) <= TiledEnd

\* after one entry or more, a header whose payload length is 0, or an
\* entry longer than what remains, ended the loop with NXM_INVALID
C4_Witness ==
    /\ pc = "returned"
    /\ pass = 1
    /\ header = NO_HEADER
    /\ error = NXM_INVALID
    /\ p > 0
    /\ match_len >= 4

\* a match that tiles ended the loop with success
C4_WitnessTiled ==
    /\ pc = "returned"
    /\ pass = 1
    /\ error = NO_ERROR
    /\ p = arg_len
    /\ p > 0

----------------------------------------------------------------------------
(* C6: the masks of NXM_OF_ETH_DST_W.                                      *)

\* masks whose first byte and whose other five bytes vary separately
EthMasks ==
    { <<first>> \o rest :
        first \in {0, 1, 15, 128, 254, 255},
        rest \in { <<0, 0, 0, 0, 0>>, <<255, 255, 255, 255, 255>>,
                   <<0, 0, 0, 0, 1>> } }

\* what precedes the masked entry: nothing, an address of another field,
\* or an entry that clears one or both of the destination's wildcard bits
EthDstBefore ==
    { <<>>,
      <<NXM_OF_ETH_SRC \o MAC2>>,
      <<NXM_OF_ETH_DST \o MAC2>>,
      <<NXM_OF_ETH_DST_W \o MAC2 \o eth_mcast_1>> }

EthDstAfter == { <<>>, <<NXM_OF_ETH_SRC \o MAC2>> }

EthDstInputs ==
    { Message(before \o <<NXM_OF_ETH_DST_W \o value \o m>> \o after,
              <<>>, 0, 7, <<>>) :
        before \in EthDstBefore, value \in {MAC1, eth_all_1s},
        m \in EthMasks, after \in EthDstAfter }

InitEthDst == \E in \in EthDstInputs : InitPull(in)

SpecEthDst == InitEthDst /\ [][Next]_vars

DL_DST_BOTH == OFPFW_DL_DST \cup FWW_ETH_MCAST

\* C6: when the loop takes an NXM_OF_ETH_DST_W entry while both destination
\* wildcard conditions are set, the entry is accepted if its mask is one of
\* 00:00:00:00:00:00, ff:ff:ff:ff:ff:ff, 01:00:00:00:00:00 and
\* fe:ff:ff:ff:ff:ff, and NXM_BAD_MASK is returned for any other mask; the
\* all-zero mask leaves both conditions set, the all-one mask clears both,
\* 01:00:00:00:00:00 clears the multicast condition only and
\* fe:ff:ff:ff:ff:ff clears the other only.
C6_EthDstMasks ==
    [][ ( /\ pc = "loop"
          /\ pc' # "start"
          /\ header' = NXM_OF_ETH_DST_W
          /\ DL_DST_BOTH \subseteq rule.wc.wildcards ) =>
        LET m == Bytes(d, p + 4 + ETH_ADDR_LEN, ETH_ADDR_LEN)
            left == rule'.wc.wildcards \cap DL_DST_BOTH
        IN /\ m \in {eth_all_0s, eth_all_1s, eth_mcast_1, eth_mcast_0} =>
                 error' = RUNNING /\ pc' = "loop"
           /\ m \notin {eth_all_0s, eth_all_1s, eth_mcast_1, eth_mcast_0} =>
                 error' = NXM_BAD_MASK /\ pc' = "returned"
           /\ m = eth_all_0s => left = DL_DST_BOTH
           /\ m = eth_all_1s => left = {}
           /\ m = eth_mcast_1 => left = OFPFW_DL_DST
           /\ m = eth_mcast_0 => left = FWW_ETH_MCAST
      ]_vars

\* the entry with mask fe:ff:ff:ff:ff:ff was accepted as the first that
\* names the destination
C6_Witness ==
    /\ pc = "loop"
    /\ pass = 1
    /\ header = NXM_OF_ETH_DST_W
    /\ Bytes(d, p - ETH_ADDR_LEN, ETH_ADDR_LEN) = eth_mcast_0
    /\ rule.wc.wildcards \cap DL_DST_BOTH = FWW_ETH_MCAST
    /\ ~AssertedEarlier

----------------------------------------------------------------------------
(* C7: NXM_OF_IN_PORT and NXM_OF_ETH_TYPE, decoded and encoded again.      *)

Ports == {0, 1, 2, 255, 256, 65280, 65533, OFPP_LOCAL, 65535}

EthTypes == {0, 5, 1536, ETH_TYPE_IP, ETH_TYPE_ARP, 34525, 65535}

PortInputs ==
    { Message(<<E_IN_PORT(port), E_ETH_TYPE(type)>>, <<>>, 0, prio, out0) :
        port \in Ports, type \in EthTypes, prio \in {0, 7},
        out0 \in {<<>>, <<170, 85>>} }

InitPort == \E in \in PortInputs : InitPull(in)

SpecPort == InitPort /\ [][Next]_vars

\* the bytes nx_put_match() appended
Emitted == SubSeq(out, start_len + 1, Len(out))

\* the port and the type that the message names
MsgPort == get_unaligned_u16(msg, 4)
MsgType == get_unaligned_u16(msg, 10)

\* the catch-all rule with only the input port and the Ethernet type exact
PortTypeRule(in_port, dl_type) ==
    [cls_rule_init_catchall(priority) EXCEPT
        !.flow.in_port = in_port,
        !.flow.dl_type = dl_type,
        !.wc.wildcards = OVSFW_ALL \ (OFPFW_IN_PORT \cup OFPFW_DL_TYPE)]

\* The claim as stated: for every port p and type t the rule decoded has
\* only the input port and the Ethernet type exact, and nx_put_match() of it
\* emits the bytes of the original buffer and returns its unpadded length.
C7_ByteIdentical ==
    /\ (pass = 1 /\ pc = "returned") =>
           /\ error = NO_ERROR
           /\ rule.wc = PortTypeRule(0, 0).wc
           /\ rule.flow.dl_type = MsgType
    /\ pass = 2 => (Emitted = msg /\ put_len = arg_len)

\* C7: for every port p and type t the rule decoded from IN_PORT=p,
\* ETH_TYPE=t has only the input port and the Ethernet type exact, the port
\* being ODPP_LOCAL for p = OFPP_LOCAL and p otherwise; nx_put_match() of it
\* returns the original unpadded length and emits the original bytes,
\* except that the port emitted for p = ODPP_LOCAL is OFPP_LOCAL.
C7_PortTypeRoundTrip ==
    /\ (pass = 1 /\ pc = "returned") =>
           /\ error = NO_ERROR
           /\ rule = PortTypeRule(IF MsgPort = OFPP_LOCAL
                                  THEN ODPP_LOCAL
                                  ELSE MsgPort, MsgType)
    /\ pass = 2 =>
           /\ put_len = arg_len
           /\ Emitted =
                  Message(<<E_IN_PORT(IF MsgPort = ODPP_LOCAL
                                      THEN OFPP_LOCAL
                                      ELSE MsgPort),
                            E_ETH_TYPE(MsgType)>>, <<>>, 0, 0, <<>>).msg

\* a message with a port other than the two local ports was encoded again
C7_Witness ==
    /\ pass = 2
    /\ MsgPort \notin {ODPP_LOCAL, OFPP_LOCAL}
    /\ Emitted = msg
    /\ Len(msg) = 16
    /\ start_len > 0

----------------------------------------------------------------------------
(* C8: what NXM_INVALID is returned for.                                   *)

\* every entry of the declared region has a nonzero payload length and the
\* entries tile the region
WellTiled == TiledEnd = PassLen

\* C8: nx_pull_match() returns NXM_INVALID only for a length defect: never
\* for a region that its entries tile, whatever their fields, values and
\* masks are.
C8_InvalidOnlyForLength ==
    (pc = "returned" /\ WellTiled) => error # NXM_INVALID

----------------------------------------------------------------------------
(* C9, C10: nx_put_match() of a rule of the caller's.                      *)

PutWildcards ==
    { OVSFW_ALL,
      OVSFW_ALL \ OFPFW_DL_TYPE,
      OVSFW_ALL \ (OFPFW_DL_TYPE \cup OFPFW_NW_PROTO \cup OFPFW_TP_SRC),
      OVSFW_ALL \ (OFPFW_IN_PORT \cup OFPFW_DL_TYPE \cup NXFW_TUN_ID),
      OVSFW_ALL \ (OFPFW_DL_DST \cup OFPFW_DL_VLAN),
      OFPFW_NW_TOS \cup FWW_ETH_MCAST,
      {} }

\* the masks of the network source and destination
PutNwMasks ==
    { <<Zero32, Zero32>>, <<Ones32, Zero32>>, <<MASK24, Ones32>>,
      <<Zero32, MASK24>>, <<Ones32, Ones32>> }

\* the masks of the registers 0, 1, 2
PutRegMasks ==
    { <<Zero32, Zero32, Zero32>>, <<Ones32, Zero32, REGM>>,
      <<REGM, Ones32, Zero32>>, <<Zero32, REGM, Ones32>> }

PutRule(wildcards, dl_type, nw, regm) ==
    [flow |-> [in_port |-> 1, dl_dst |-> MAC1, dl_src |-> MAC2,
               dl_type |-> dl_type, dl_vlan |-> 291, dl_vlan_pcp |-> 5,
               nw_tos |-> 252, nw_proto |-> IP_TYPE_TCP,
               nw_src |-> AndBytes(IP1, nw[1]),
               nw_dst |-> AndBytes(IP2, nw[2]),
               tp_src |-> 80, tp_dst |-> 443, tun_id |-> <<0, 0, 1, 42>>,
               regs |-> [i \in 0..(FLOW_N_REGS - 1) |->
                            AndBytes(REGV, regm[i + 1])]],
     wc |-> [wildcards |-> wildcards, nw_src_mask |-> nw[1],
             nw_dst_mask |-> nw[2],
             reg_masks |-> [i \in 0..(FLOW_N_REGS - 1) |-> regm[i + 1]]],
     priority |-> 7]

PutInputs ==
    { [rule |-> PutRule(w, t, nw, regm), out |-> out0] :
        w \in PutWildcards, t \in {ETH_TYPE_IP, ETH_TYPE_ARP, 5},
        nw \in PutNwMasks, regm \in PutRegMasks,
        out0 \in {<<>>, <<170, 85, 1>>} }

InitPutRule == \E in \in PutInputs : InitPut(in)

SpecPut == InitPutRule /\ [][Next]_vars

\* the offset at which the complete entries of the first n bytes of buf end
RECURSIVE EntriesEnd(_, _, _)
EntriesEnd(buf, q, n) ==
    IF n - q >= 4 /\ buf[q + 4] # 0 /\ q + 4 + buf[q + 4] <= n
    THEN EntriesEnd(buf, q + 4 + buf[q + 4], n)
    ELSE q

\* nothing of the rule is exact
FullyWildcarded(r) ==
    /\ r.wc.wildcards = OVSFW_ALL
    /\ r.wc.nw_src_mask = Zero32
    /\ r.wc.nw_dst_mask = Zero32
    /\ \A i \in 0..(FLOW_N_REGS - 1) : r.wc.reg_masks[i] = Zero32

\* C9: nx_put_match() only appends.  The bytes that were in the buffer are
\* unchanged; the value L returned is the size of the entries emitted, each
\* 4 bytes of header and the payload length its header encodes; ROUND_UP(L,
\* 8) bytes are appended, the last ROUND_UP(L, 8) - L of them zero; for a
\* fully wildcarded rule L is 0 and nothing is appended.
C9_PutAppends ==
    [][ (pass = 1 /\ pass' = 2) =>
        LET L == put_len'
            new == SubSeq(out', Len(out) + 1, Len(out'))
        IN /\ Len(out') >= Len(out)
           /\ SubSeq(out', 1, Len(out)) = out
           /\ Len(new) = ROUND_UP(L, 8)
           /\ EntriesEnd(new, 0, L) = L
           /\ SubSeq(new, L + 1, Len(new)) = Zeros(ROUND_UP(L, 8) - L)
           /\ FullyWildcarded(rule) => (L = 0 /\ out' = out)
      ]_vars

\* entries that need padding were appended to a buffer that was not empty
C9_Witness ==
    /\ pass = 2
    /\ pc = "start"
    /\ msg = <<>>
    /\ start_len > 0
    /\ put_len > 0
    /\ put_len % 8 # 0
    /\ Len(out) = start_len + ROUND_UP(put_len, 8)

\* the entries that nx_put_match() emitted, by offset into Emitted
EmittedOffsets == EntryOffsets(Emitted, 0, put_len)

\* the emitted entries with header hh
EmittedWith(hh) ==
    { i \in 1..Len(EmittedOffsets) : Bytes(Emitted, EmittedOffsets[i], 4) = hh }

\* one emitted entry has header hh, and its payload is bytes
EmittedOnce(hh, bytes) ==
    /\ Cardinality(EmittedWith(hh)) = 1
    /\ \A i \in EmittedWith(hh) :
          Bytes(Emitted, EmittedOffsets[i] + 4, NXM_LENGTH(hh)) = bytes

\* nothing, the exact entry or the masked entry, as the mask says
Emitted32m(exact, wild, value, mask) ==
    IF mask = Zero32
    THEN EmittedWith(exact) = {} /\ EmittedWith(wild) = {}
    ELSE IF mask = Ones32
    THEN EmittedOnce(exact, value) /\ EmittedWith(wild) = {}
    ELSE EmittedOnce(wild, value \o mask) /\ EmittedWith(exact) = {}

\* C10: a 32-bit field with a mask is emitted as nothing when the mask is
\* 0, as the exact header and the value when the mask is all ones, and
\* else as the masked header, the value and the mask.  The network
\* addresses are emitted only when the Ethernet type is exact, as
\* NXM_OF_IP_SRC and NXM_OF_IP_DST when it is IP and as NXM_OF_ARP_SPA and
\* NXM_OF_ARP_TPA when it is ARP; every register whose mask is nonzero is
\* emitted.
C10_Put32m ==
    (pass = 2 /\ msg = <<>>) =>
        LET exact == cr.wc.wildcards \cap OFPFW_DL_TYPE = {}
            ip == exact /\ cr.flow.dl_type = ETH_TYPE_IP
            arp == exact /\ cr.flow.dl_type = ETH_TYPE_ARP
            src == cr.wc.nw_src_mask
            dst == cr.wc.nw_dst_mask
        IN /\ Emitted32m(NXM_OF_IP_SRC, NXM_OF_IP_SRC_W, cr.flow.nw_src,
                         IF ip THEN src ELSE Zero32)
           /\ Emitted32m(NXM_OF_IP_DST, NXM_OF_IP_DST_W, cr.flow.nw_dst,
                         IF ip THEN dst ELSE Zero32)
           /\ Emitted32m(NXM_OF_ARP_SPA, NXM_OF_ARP_SPA_W, cr.flow.nw_src,
                         IF arp THEN src ELSE Zero32)
           /\ Emitted32m(NXM_OF_ARP_TPA, NXM_OF_ARP_TPA_W, cr.flow.nw_dst,
                         IF arp THEN dst ELSE Zero32)
           /\ \A i \in 0..(FLOW_N_REGS - 1) :
                 Emitted32m(NXM_NX_REG(i), NXM_NX_REG_W(i), cr.flow.regs[i],
                            cr.wc.reg_masks[i])

\* a masked source, an exact destination and a masked register were emitted
C10_Witness ==
    /\ pass = 2
    /\ msg = <<>>
    /\ cr.flow.dl_type = ETH_TYPE_ARP
    /\ EmittedWith(NXM_OF_ARP_SPA_W) # {}
    /\ EmittedWith(NXM_OF_ARP_TPA) # {}
    /\ EmittedWith(NXM_NX_REG_W(1)) # {}
    /\ EmittedWith(NXM_NX_REG(2)) # {}

----------------------------------------------------------------------------
(* C11: a match printed by nx_match_to_string() and parsed again by        *)
(* nx_match_from_string().                                                 *)

FATAL == "fatal"

\* The caller holds the bytes of a match and is about to print them.
InitText(in) ==
    /\ msg = in.msg
    /\ arg_len = in.match_len
    /\ priority = in.priority
    /\ b = <<>>
    /\ d = <<>>
    /\ p = 0
    /\ match_len = 0
    /\ header = NO_HEADER
    /\ rule = cls_rule_init_catchall(0)
    /\ error = RUNNING
    /\ cr = cls_rule_init_catchall(0)
    /\ out = in.out
    /\ start_len = Len(in.out)
    /\ put_len = 0
    /\ pass = 1
    /\ pc = "to_string"
    /\ reads = {}
    /\ NoText /\ NoAction /\ NoThreads /\ NoMutation

\* nx_match_to_string() of the first arg_len bytes of msg
MatchToString ==
    /\ pc = "to_string"
    /\ text' = nx_match_to_string(msg, arg_len)
    /\ pc' = "from_string"
    /\ UNCHANGED <<msg, arg_len, priority, b, d, p, match_len, header, rule,
                   error, cr, out, start_len, put_len, pass, reads>>
    /\ UNCHANGED <<reg_vars, init_vars, mutation_vars>>

\* nx_match_from_string() of the string, appending to out
MatchFromString ==
    /\ pc = "from_string"
    /\ LET r == nx_match_from_string(text, out)
       IN /\ out' = r.b
          /\ put_len' = r.match_len
          /\ error' = IF r.fatal THEN FATAL ELSE NO_ERROR
    /\ start_len' = Len(out)
    /\ pc' = "returned"
    /\ UNCHANGED <<msg, arg_len, priority, b, d, p, match_len, header, rule,
                   cr, pass, reads>>
    /\ UNCHANGED <<text, reg_vars, init_vars, mutation_vars>>

NextText == MatchToString \/ MatchFromString

TextPool ==
    { E_IN_PORT(1),
      NXM_OF_ETH_DST_W \o MAC1 \o eth_mcast_1,
      NXM_OF_VLAN_TCI_W \o Be16(VLAN_CFI + 291) \o Be16(8191),
      NXM_OF_IP_TOS \o <<3>>,
      NXM_NX_TUN_ID \o <<0, 0, 0, 1, 0, 0, 0, 42>>,
      NXM_NX_REG_W(1) \o REGV \o REGM,
      NXM_HEADER(2, 0, 2) \o <<0, 10>> }

TextInputs ==
    Messages({<<>>}, TextPool, MaxBody, {<<>>, <<0, 0, 6>>}, {0}, {7},
             {<<>>, <<170>>})

InitTextSpec == \E in \in TextInputs : InitText(in)

SpecText == InitTextSpec /\ [][NextText]_vars

\* the entries of the region are known to the registry and tile it
KnownTiled ==
    LET offs == EntryOffsets(msg, 0, arg_len)
    IN /\ EntriesEnd(msg, 0, arg_len) = arg_len
       /\ \A i \in 1..Len(offs) :
             nxm_field_lookup(Bytes(msg, offs[i], 4)) # NULL

\* C11: for a region whose entries are known to the registry and tile it,
\* nx_match_from_string() of the string that nx_match_to_string() made
\* returns match_len and appends the region's match_len bytes and the zeros
\* that pad them to a multiple of 8; for match_len 0 the string is "<any>",
\* 0 is returned and nothing is appended.
C11_TextRoundTrip ==
    (pc = "returned" /\ text # <<>> /\ KnownTiled) =>
        /\ error = NO_ERROR
        /\ put_len = arg_len
        /\ Emitted = SubSeq(msg, 1, arg_len)
                        \o Zeros(ROUND_UP(arg_len, 8) - arg_len)
        /\ arg_len = 0 => (text = any_string /\ Len(out) = start_len)

\* a region with a masked entry and a byte below 16, which needs padding,
\* was printed and parsed
C11_Witness ==
    /\ pc = "returned"
    /\ text # <<>>
    /\ KnownTiled
    /\ arg_len % 8 # 0
    /\ \E i \in 1..Len(text) : text[i] = "/"
    /\ \E i \in 1..arg_len : msg[i] \in 1..15
    /\ put_len = arg_len
    /\ start_len > 0

----------------------------------------------------------------------------
(* The bit-range actions: a caller validates one nx_action_reg_move or     *)
(* nx_action_reg_load against a flow and, when it was accepted, executes   *)
(* it on that flow.                                                        *)

InitReg(a, f) ==
    /\ msg = <<>>
    /\ arg_len = 0
    /\ priority = 0
    /\ b = <<>>
    /\ d = <<>>
    /\ p = 0
    /\ match_len = 0
    /\ header = NO_HEADER
    /\ rule = cls_rule_init_catchall(0)
    /\ error = RUNNING
    /\ cr = cls_rule_init_catchall(0)
    /\ out = <<>>
    /\ start_len = 0
    /\ put_len = 0
    /\ pass = 1
    /\ pc = "check"
    /\ reads = {}
    /\ NoText /\ NoThreads /\ NoMutation
    /\ action = a
    /\ flow = f
    /\ checked = RUNNING

IsMove == action.type = "reg_move"
IsLoad == action.type = "reg_load"

CheckRegMove ==
    /\ pc = "check"
    /\ IsMove
    /\ checked' = nxm_check_reg_move(action, flow)
    /\ pc' = "checked"
    /\ UNCHANGED <<action, flow>>
    /\ UNCHANGED <<msg, arg_len, priority, b, d, p, match_len, header, rule,
                   error, cr, out, start_len, put_len, pass, reads>>
    /\ UNCHANGED <<text, init_vars, mutation_vars>>

CheckRegLoad ==
    /\ pc = "check"
    /\ IsLoad
    /\ checked' = nxm_check_reg_load(action, flow)
    /\ pc' = "checked"
    /\ UNCHANGED <<action, flow>>
    /\ UNCHANGED <<msg, arg_len, priority, b, d, p, match_len, header, rule,
                   error, cr, out, start_len, put_len, pass, reads>>
    /\ UNCHANGED <<text, init_vars, mutation_vars>>

\* only an accepted action is executed
ExecuteRegMove ==
    /\ pc = "checked"
    /\ IsMove
    /\ checked = NO_ERROR
    /\ LET r == nxm_execute_reg_move(action, flow)
       IN /\ flow' = r.flow
          /\ pc' = IF r.ok THEN "executed" ELSE "aborted"
    /\ UNCHANGED <<action, checked>>
    /\ UNCHANGED <<msg, arg_len, priority, b, d, p, match_len, header, rule,
                   error, cr, out, start_len, put_len, pass, reads>>
    /\ UNCHANGED <<text, init_vars, mutation_vars>>

ExecuteRegLoad ==
    /\ pc = "checked"
    /\ IsLoad
    /\ checked = NO_ERROR
    /\ LET r == nxm_execute_reg_load(action, flow)
       IN /\ flow' = r.flow
          /\ pc' = IF r.ok THEN "executed" ELSE "aborted"
    /\ UNCHANGED <<action, checked>>
    /\ UNCHANGED <<msg, arg_len, priority, b, d, p, match_len, header, rule,
                   error, cr, out, start_len, put_len, pass, reads>>
    /\ UNCHANGED <<text, init_vars, mutation_vars>>

NextReg == CheckRegMove \/ CheckRegLoad \/ ExecuteRegMove \/ ExecuteRegLoad

\* a flow without a VLAN and without an IP packet, and a TCP flow with a VLAN
RegFlows ==
    LET base == cls_rule_init_catchall(0).flow
    IN { [base EXCEPT !.in_port = 7,
                      !.dl_src = MAC1,
                      !.dl_dst = MAC2,
                      !.dl_vlan = OFP_VLAN_NONE,
                      !.tun_id = <<18, 52, 86, 120>>,
                      !.regs = [i \in 0..(FLOW_N_REGS - 1) |->
                                   IF i = 0 THEN REGV
                                   ELSE IF i = 1 THEN <<0, 0, 1, 35>>
                                   ELSE Zero32]],
         [base EXCEPT !.dl_src = MAC1,
                      !.dl_type = ETH_TYPE_IP,
                      !.nw_proto = IP_TYPE_TCP,
                      !.tp_src = 4660,
                      !.tp_dst = 80,
                      !.dl_vlan = 291,
                      !.dl_vlan_pcp = 5,
                      !.tun_id = <<255, 255, 255, 255>>,
                      !.regs = [i \in 0..(FLOW_N_REGS - 1) |->
                                   IF i = 0 THEN <<128, 0, 16, 1>>
                                   ELSE IF i = 1 THEN <<255, 255, 239, 255>>
                                   ELSE REGV]] }

\* headers of registers, of other fields, masked, with prerequisites, and
\* of a register that the registry does not hold
MoveSrcs ==
    { NXM_NX_REG(0), NXM_NX_REG(1), NXM_OF_ETH_SRC, NXM_OF_VLAN_TCI,
      NXM_NX_TUN_ID, NXM_OF_TCP_SRC, NXM_NX_REG_W(0), NXM_NX_REG(FLOW_N_REGS) }

MoveDsts ==
    { NXM_NX_REG(0), NXM_NX_REG(2), NXM_OF_VLAN_TCI, NXM_NX_TUN_ID,
      NXM_OF_ETH_DST, NXM_OF_VLAN_TCI_W, NXM_OF_TCP_DST,
      NXM_NX_REG(FLOW_N_REGS) }

MoveSrcOfs == {0, 4, 16, 32}
MoveDstOfs == {0, 4, 12, 16, 32}
MoveNBits == {0, 1, 12, 16, 32, 48, 64}

RegMoves ==
    { [type |-> "reg_move", n_bits |-> n, src_ofs |-> so, dst_ofs |-> do,
       src |-> s, dst |-> t] :
        n \in MoveNBits, so \in MoveSrcOfs, do \in MoveDstOfs,
        s \in MoveSrcs, t \in MoveDsts }

LoadDsts ==
    { NXM_NX_REG(0), NXM_NX_REG(2), NXM_NX_REG_W(1), NXM_NX_REG(FLOW_N_REGS),
      NXM_NX_REG(15), NXM_OF_VLAN_TCI, NXM_NX_TUN_ID }

LoadOfs == {0, 8, 31, 32}
LoadNBits == {1, 8, 24, 32, 33, 64}

LoadValues ==
    { Zeros(8), <<0, 0, 0, 0, 0, 0, 0, 1>>, <<0, 0, 0, 0, 0, 0, 0, 255>>,
      <<0, 0, 0, 0, 0, 0, 1, 0>>, <<0, 0, 0, 0, 255, 255, 255, 255>>,
      <<0, 0, 0, 1, 0, 0, 0, 0>>, <<128, 0, 0, 0, 0, 0, 0, 0>>, Ones(8) }

RegLoads ==
    { [type |-> "reg_load", ofs_nbits |-> o * 64 + (n - 1), dst |-> t,
       value |-> v] :
        o \in LoadOfs, n \in LoadNBits, t \in LoadDsts, v \in LoadValues }

InitRegSpec == \E a \in RegMoves \cup RegLoads, f \in RegFlows : InitReg(a, f)

SpecReg == InitRegSpec /\ [][NextReg]_vars

\* the header is one of the registry's
Registered(h) == \E i \in 1..N_NXM_FIELDS : nxm_fields[i].header = h

\* the registry's field with the header has its prerequisites in the flow
PrereqsHold(h) ==
    \A i \in 1..N_NXM_FIELDS :
        nxm_fields[i].header = h =>
            \/ nxm_fields[i].dl_type = 0
            \/ /\ nxm_fields[i].dl_type = flow.dl_type
               /\ nxm_fields[i].nw_proto \in {0, flow.nw_proto}

\* what is required of a copy operation
MoveRequirements ==
    /\ action.n_bits # 0
    /\ Registered(action.src) /\ Registered(action.dst)
    /\ NXM_HASMASK(action.src) = 0 /\ NXM_HASMASK(action.dst) = 0
    /\ PrereqsHold(action.src) /\ PrereqsHold(action.dst)
    /\ action.src_ofs + action.n_bits <= 8 * NXM_LENGTH(action.src)
    /\ action.dst_ofs + action.n_bits <= 8 * NXM_LENGTH(action.dst)
    /\ \/ \E i \in 0..(FLOW_N_REGS - 1) : action.dst = NXM_NX_REG(i)
       \/ action.dst = NXM_OF_VLAN_TCI
       \/ action.dst = NXM_NX_TUN_ID

\* C12: nxm_check_reg_move() returns 0 exactly when n_bits is nonzero, both
\* headers are in the registry without the has-mask flag, both fields have
\* their prerequisites in the flow, both bit ranges lie within their field's
\* width and the destination is a register, NXM_OF_VLAN_TCI or
\* NXM_NX_TUN_ID; it returns BAD_ARGUMENT otherwise and leaves the flow as
\* it was.
C12_CheckRegMove ==
    [][(pc = "check" /\ IsMove) =>
          /\ flow' = flow
          /\ checked' = IF MoveRequirements THEN NO_ERROR ELSE BAD_ARGUMENT]_vars

\* copy operations were accepted and refused for each of the reasons
C12_WitnessAccepted ==
    /\ pc = "checked" /\ IsMove /\ checked = NO_ERROR
    /\ action.src = NXM_OF_TCP_SRC /\ action.dst = NXM_OF_VLAN_TCI
    /\ action.src_ofs + action.n_bits = 16

C12_WitnessRefused ==
    /\ pc = "checked" /\ IsMove /\ checked = BAD_ARGUMENT
    /\ action.n_bits # 0
    /\ action.src = NXM_NX_REG(0) /\ action.dst = NXM_NX_TUN_ID
    /\ action.src_ofs + action.n_bits = 33

\* the declared bit count and offset of the load
LoadNBitsOf == (action.ofs_nbits % 64) + 1
LoadOfsOf == action.ofs_nbits \div 64

\* bit k (0 the least significant) of the load's 8-byte literal
ValueBit(k) == (action.value[8 - (k \div 8)] \div 2^(k % 8)) % 2

\* the literal has a bit set at or above the declared bit count
HighBitSet == \E k \in 0..63 : k >= LoadNBitsOf /\ ValueBit(k) = 1

\* C13: nxm_check_reg_load() returns BAD_ARGUMENT for a load whose literal
\* has a bit set at a position at or above n_bits, the low 6 bits of
\* ofs_nbits plus 1; it returns 0 only when moreover the destination is a
\* register of the registry without the has-mask flag, its prerequisites
\* hold and ofs + n_bits is at most 32.
C13_CheckRegLoad ==
    (pc # "check" /\ IsLoad) =>
        /\ checked \in {NO_ERROR, BAD_ARGUMENT}
        /\ HighBitSet => checked = BAD_ARGUMENT
        /\ checked = NO_ERROR =>
              /\ ~HighBitSet
              /\ \E i \in 0..(FLOW_N_REGS - 1) : action.dst = NXM_NX_REG(i)
              /\ Registered(action.dst)
              /\ NXM_HASMASK(action.dst) = 0
              /\ PrereqsHold(action.dst)
              /\ LoadOfsOf + LoadNBitsOf <= 32

\* a load into a register whose bit range fits was refused for its literal
C13_Witness ==
    /\ pc = "checked" /\ IsLoad /\ checked = BAD_ARGUMENT
    /\ action.dst = NXM_NX_REG(2)
    /\ LoadOfsOf = 8 /\ LoadNBitsOf = 24
    /\ HighBitSet

\* a load of a full-width literal was accepted
C13_WitnessAccepted ==
    /\ pc = "checked" /\ IsLoad /\ checked = NO_ERROR
    /\ LoadOfsOf = 0 /\ LoadNBitsOf = 32
    /\ action.value = <<0, 0, 0, 0, 255, 255, 255, 255>>

\* C14: an action that its validator accepted executes without reaching
\* NOT_REACHED(), neither in nxm_read_field() of the source or of the
\* destination nor in the store; an accepted load writes a register whose
\* index is below FLOW_N_REGS and shifts by fewer than 32 bits.
C14_ValidatedExecutes ==
    /\ pc # "aborted"
    /\ (IsMove /\ checked = NO_ERROR) =>
          /\ nxm_read_field(nxm_field_lookup(action.src), flow) # NOT_REACHED
          /\ nxm_read_field(nxm_field_lookup(action.dst), flow) # NOT_REACHED
    /\ (IsLoad /\ checked = NO_ERROR) =>
          /\ NXM_NX_REG_IDX(action.dst) < FLOW_N_REGS
          /\ LoadOfsOf < 32

\* an accepted copy of 64 bits and an accepted load at the highest offset
\* were executed
C14_Witness ==
    /\ pc = "executed"
    /\ \/ IsMove /\ action.n_bits = 64
       \/ IsLoad /\ LoadOfsOf = 31

C14_WitnessLoad ==
    /\ pc = "executed" /\ IsLoad /\ LoadOfsOf = 31
    /\ action.dst = NXM_NX_REG(2)
    /\ flow.regs[2][1] >= 128

\* the step of nxm_execute_reg_move() on an accepted copy operation
MoveExecutes == pc = "checked" /\ IsMove /\ pc' = "executed"

DstIsRegister == \E i \in 0..(FLOW_N_REGS - 1) : action.dst = NXM_NX_REG(i)

\* the destination read back after the step holds the source's bit range at
\* [dst_ofs, dst_ofs + n_bits) and the destination's earlier bits in the
\* rest of its width bits
ReadBackMerged(width) ==
    LET src_value == nxm_read_field(nxm_field_lookup(action.src), flow)
        dst_value == nxm_read_field(nxm_field_lookup(action.dst), flow)
        read_back == nxm_read_field(nxm_field_lookup(action.dst), flow')
    IN \A k \in 0..(width - 1) :
          read_back[k] =
              IF k >= action.dst_ofs /\ k < action.dst_ofs + action.n_bits
              THEN src_value[k - action.dst_ofs + action.src_ofs]
              ELSE dst_value[k]

\* no member of the flow but the destination's differs after the step
OnlyDstModified ==
    IF DstIsRegister
    THEN flow' = [flow EXCEPT !.regs[NXM_NX_REG_IDX(action.dst)] =
                                 flow'.regs[NXM_NX_REG_IDX(action.dst)]]
    ELSE flow' = [flow EXCEPT !.tun_id = flow'.tun_id]

\* C19: after nxm_execute_reg_move() of an accepted copy into a register or
\* into the tunnel id, the destination read through nxm_read_field() has the
\* source's bits [src_ofs, src_ofs + n_bits) at [dst_ofs, dst_ofs + n_bits)
\* and its earlier value in every other bit of its width, 32 bits for a
\* register and 64 bits for the tunnel id, and no other member of the flow
\* is modified.
C19_MoveReadBack ==
    [][(MoveExecutes /\ (DstIsRegister \/ action.dst = NXM_NX_TUN_ID)) =>
          /\ ReadBackMerged(IF DstIsRegister THEN 32 ELSE 64)
          /\ OnlyDstModified]_vars

\* the same for the registers alone, and for the low 32 bits of the tunnel
\* id
C19_RegisterReadBack ==
    [][(MoveExecutes /\ DstIsRegister) =>
          (ReadBackMerged(32) /\ OnlyDstModified)]_vars

C19_TunnelLowReadBack ==
    [][(MoveExecutes /\ action.dst = NXM_NX_TUN_ID
            /\ action.dst_ofs + action.n_bits <= 32) =>
          (ReadBackMerged(64) /\ OnlyDstModified)]_vars

\* bit k of the value that the copy merges: the source's bit range at
\* [dst_ofs, dst_ofs + n_bits), the destination's earlier bits elsewhere
MergedBit(k) ==
    IF k >= action.dst_ofs /\ k < action.dst_ofs + action.n_bits
    THEN nxm_read_field(nxm_field_lookup(action.src),
                        flow)[k - action.dst_ofs + action.src_ofs]
    ELSE nxm_read_field(nxm_field_lookup(action.dst), flow)[k]

VlanReadBack == nxm_read_field(nxm_field_lookup(NXM_OF_VLAN_TCI), flow')

\* C20: after nxm_execute_reg_move() of an accepted copy into
\* NXM_OF_VLAN_TCI, nxm_read_field() of NXM_OF_VLAN_TCI returns the merged
\* 16-bit value when its CFI bit (bit 12, VLAN_CFI) is set and 0 when its
\* CFI bit is unset.
C20_VlanWriteRead ==
    [][(MoveExecutes /\ action.dst = NXM_OF_VLAN_TCI) =>
          \A k \in 0..63 :
              VlanReadBack[k] = IF k < 16 /\ MergedBit(12) = 1
                                THEN MergedBit(k)
                                ELSE 0]_vars

\* the same for merged values with the CFI bit set
C20_PresentReadBack ==
    [][(MoveExecutes /\ action.dst = NXM_OF_VLAN_TCI
            /\ MergedBit(12) = 1) =>
          \A k \in 0..63 :
              VlanReadBack[k] = IF k < 16 THEN MergedBit(k) ELSE 0]_vars

----------------------------------------------------------------------------
(* C15: the NXM_OF_IP_TOS entry, for every value of its byte.              *)

E_IP_TOS(v) == NXM_OF_IP_TOS \o <<v>>

\* an NXM_OF_IP_TOS entry alone, after the Ethernet type it requires, after
\* another Ethernet type, and after an accepted NXM_OF_IP_TOS entry
TosInputs ==
    { Message(pre \o <<E_IP_TOS(v)>>, <<>>, 0, 7, <<>>) :
        pre \in { <<>>,
                  <<E_ETH_TYPE(ETH_TYPE_IP)>>,
                  <<E_ETH_TYPE(ETH_TYPE_ARP)>>,
                  <<E_ETH_TYPE(ETH_TYPE_IP), E_IP_TOS(252)>> },
        v \in 0..255 }

InitTos == \E in \in TosInputs : InitPull(in)

SpecTos == InitTos /\ [][Next]_vars

\* the loop is about to examine an NXM_OF_IP_TOS entry whose prerequisite
\* the rule satisfies and whose wildcard bit is still set
TosEntryMet ==
    /\ pc = "loop"
    /\ match_len >= 5
    /\ Bytes(d, p, 4) = NXM_OF_IP_TOS
    /\ rule.flow.dl_type = ETH_TYPE_IP
    /\ OFPFW_NW_TOS \subseteq rule.wc.wildcards

\* C15: an NXM_OF_IP_TOS entry met with its prerequisite satisfied and its
\* wildcard bit still set is rejected with NXM_BAD_VALUE exactly when one of
\* the two low bits of its value byte is set; otherwise it is accepted, the
\* byte is stored unchanged in nw_tos and the wildcard bit is cleared.
C15_IpTos ==
    [][TosEntryMet =>
          LET v == d[p + 5]
          IN IF v % 4 # 0
             THEN error' = NXM_BAD_VALUE /\ pc' = "returned"
             ELSE /\ error' = RUNNING
                  /\ pc' = "loop"
                  /\ rule'.flow.nw_tos = v
                  /\ rule'.wc.wildcards = rule.wc.wildcards \ OFPFW_NW_TOS]_vars

\* the values 0x03 and 0xfc were met after the Ethernet type of IP
C15_WitnessRejected ==
    /\ pc = "returned" /\ pass = 1 /\ error = NXM_BAD_VALUE
    /\ header = NXM_OF_IP_TOS
    /\ d[p + 5] = 3
    /\ rule.flow.dl_type = ETH_TYPE_IP

C15_Witness ==
    /\ pc = "loop" /\ pass = 1 /\ error = RUNNING
    /\ header = NXM_OF_IP_TOS
    /\ rule.flow.nw_tos = 252
    /\ d[p] = 252
    /\ OFPFW_NW_TOS \cap rule.wc.wildcards = {}

----------------------------------------------------------------------------
(* C16: nxm_init(), called by threads that make their first                *)
(* nxm_field_lookup() at the same time.  all_nxm_fields holds, for each    *)
(* element of nxm_fields, the number of times hmap_insert() was called on  *)
(* it; a thread is at the test of nxm_init(), in its loop with index i, at *)
(* the walk of nxm_field_lookup(), or has returned with what the walk saw. *)

NThreads == 2

Threads == 1..NThreads

\* the header every thread looks up: the last of nx-match.def
LookedUp == nxm_fields[N_NXM_FIELDS].header

InitThreads ==
    /\ msg = <<>>
    /\ arg_len = 0
    /\ priority = 0
    /\ b = <<>>
    /\ d = <<>>
    /\ p = 0
    /\ match_len = 0
    /\ header = NO_HEADER
    /\ rule = cls_rule_init_catchall(0)
    /\ error = RUNNING
    /\ cr = cls_rule_init_catchall(0)
    /\ out = <<>>
    /\ start_len = 0
    /\ put_len = 0
    /\ pass = 1
    /\ pc = "threads"
    /\ reads = {}
    /\ NoText /\ NoAction /\ NoMutation
    /\ all_nxm_fields = [i \in 1..N_NXM_FIELDS |-> 0]
    /\ threads = [t \in Threads |->
                     [pc |-> "nxm_init", i |-> 0, seen |-> <<>>, f |-> NULL]]

\* if (hmap_is_empty(&all_nxm_fields))
hmap_is_empty(hmap) == \A i \in 1..N_NXM_FIELDS : hmap[i] = 0

NxmInitTest(t) ==
    /\ threads[t].pc = "nxm_init"
    /\ threads' = [threads EXCEPT ![t].pc =
                      IF hmap_is_empty(all_nxm_fields)
                      THEN "hmap_insert"
                      ELSE "lookup"]
    /\ UNCHANGED all_nxm_fields
    /\ UNCHANGED <<match_vars, text, reg_vars, mutation_vars>>

\* one turn of the loop: hmap_insert() of nxm_fields[i]
NxmInitInsert(t) ==
    /\ threads[t].pc = "hmap_insert"
    /\ LET i == threads[t].i
       IN /\ all_nxm_fields' =
                 [all_nxm_fields EXCEPT ![i + 1] = all_nxm_fields[i + 1] + 1]
          /\ threads' = [threads EXCEPT
                            ![t].i = i + 1,
                            ![t].pc = IF i + 1 < N_NXM_FIELDS
                                      THEN "hmap_insert"
                                      ELSE "lookup"]
    /\ UNCHANGED <<match_vars, text, reg_vars, mutation_vars>>

\* the walk of nxm_field_lookup() and its return
FieldLookup(t) ==
    /\ threads[t].pc = "lookup"
    /\ threads' = [threads EXCEPT
                      ![t].pc = "returned",
                      ![t].seen = all_nxm_fields,
                      ![t].f = IF \E i \in 1..N_NXM_FIELDS :
                                     /\ all_nxm_fields[i] > 0
                                     /\ nxm_fields[i].header = LookedUp
                               THEN nxm_field_lookup(LookedUp)
                               ELSE NULL]
    /\ UNCHANGED all_nxm_fields
    /\ UNCHANGED <<match_vars, text, reg_vars, mutation_vars>>

NextThreads ==
    \E t \in Threads : NxmInitTest(t) \/ NxmInitInsert(t) \/ FieldLookup(t)

SpecThreads == InitThreads /\ [][NextThreads]_vars

\* C16: the registry is constructed at most once: whatever the interleaving
\* of the threads' first calls of nxm_field_lookup(), no element of
\* nxm_fields is inserted more than once, and a lookup that returned saw a
\* table that holds every element exactly once.
C16_BuiltOnce ==
    /\ \A i \in 1..N_NXM_FIELDS : all_nxm_fields[i] <= 1
    /\ \A t \in Threads :
          threads[t].pc = "returned" =>
              \A i \in 1..N_NXM_FIELDS : threads[t].seen[i] = 1

\* the two halves of it
C16_InsertedOnce == \A i \in 1..N_NXM_FIELDS : all_nxm_fields[i] <= 1

C16_LookupSeesAll ==
    \A t \in Threads :
        threads[t].pc = "returned" => threads[t].f # NULL

----------------------------------------------------------------------------
(* C17: what an accepted entry changes.                                    *)

\* the members of the flow that hold the field of a registry entry
FlowSlots(f) ==
    CASE f.index = "NXM_OF_IN_PORT" -> {"in_port"}
      [] f.index \in {"NXM_OF_ETH_DST", "NXM_OF_ETH_DST_W"} -> {"dl_dst"}
      [] f.index = "NXM_OF_ETH_SRC" -> {"dl_src"}
      [] f.index = "NXM_OF_ETH_TYPE" -> {"dl_type"}
      [] f.index \in {"NXM_OF_VLAN_TCI", "NXM_OF_VLAN_TCI_W"} ->
           {"dl_vlan", "dl_vlan_pcp"}
      [] f.index = "NXM_OF_IP_TOS" -> {"nw_tos"}
      [] f.index \in {"NXM_OF_IP_PROTO", "NXM_OF_ARP_OP"} -> {"nw_proto"}
      [] f.index \in {"NXM_OF_IP_SRC", "NXM_OF_IP_SRC_W", "NXM_OF_ARP_SPA",
                      "NXM_OF_ARP_SPA_W"} -> {"nw_src"}
      [] f.index \in {"NXM_OF_IP_DST", "NXM_OF_IP_DST_W", "NXM_OF_ARP_TPA",
                      "NXM_OF_ARP_TPA_W"} -> {"nw_dst"}
      [] f.index \in {"NXM_OF_TCP_SRC", "NXM_OF_UDP_SRC",
                      "NXM_OF_ICMP_TYPE"} -> {"tp_src"}
      [] f.index \in {"NXM_OF_TCP_DST", "NXM_OF_UDP_DST",
                      "NXM_OF_ICMP_CODE"} -> {"tp_dst"}
      [] f.index = "NXM_NX_TUN_ID" -> {"tun_id"}
      [] OTHER -> {}

\* the wildcard bits that belong to the field
WildBits(f) ==
    CASE f.index \in {"NXM_OF_ETH_DST", "NXM_OF_ETH_DST_W"} ->
           OFPFW_DL_DST \cup FWW_ETH_MCAST
      [] f.index \in {"NXM_OF_VLAN_TCI", "NXM_OF_VLAN_TCI_W"} ->
           OFPFW_DL_VLAN \cup OFPFW_DL_VLAN_PCP
      [] OTHER -> f.wildcard

\* the field is register i
IsRegister(f, i) == NXM_VENDOR(f.header) = 1 /\ NXM_FIELD(f.header) = i

\* rule r2 differs from rule r1 in nothing but the slot, the wildcard bits and
\* the mask of field f
OnlyFieldChanged(r1, r2, f) ==
    /\ \A m \in (DOMAIN r1.flow) \ (FlowSlots(f) \cup {"regs"}) :
          r2.flow[m] = r1.flow[m]
    /\ \A i \in 0..(FLOW_N_REGS - 1) :
          ~IsRegister(f, i) =>
              /\ r2.flow.regs[i] = r1.flow.regs[i]
              /\ r2.wc.reg_masks[i] = r1.wc.reg_masks[i]
    /\ r2.wc.wildcards \cup WildBits(f) = r1.wc.wildcards \cup WildBits(f)
    /\ "nw_src" \notin FlowSlots(f) => r2.wc.nw_src_mask = r1.wc.nw_src_mask
    /\ "nw_dst" \notin FlowSlots(f) => r2.wc.nw_dst_mask = r1.wc.nw_dst_mask
    /\ r2.priority = r1.priority

\* the loop accepts the entry at p
EntryAccepted == pc = "loop" /\ pc' = "loop" /\ header' # NO_HEADER

\* C17: an entry that the decoder accepts changes only the flow slot and the
\* wildcard bits or mask of the field it names; an NXM_OF_ETH_DST or
\* NXM_OF_ETH_DST_W entry leaves dl_src as it was, and an NXM_OF_ETH_DST_W
\* entry with the all-zero mask changes nothing.
C17_FrameEffect ==
    [][EntryAccepted =>
          /\ OnlyFieldChanged(rule, rule', nxm_field_lookup(header'))
          /\ header' \in {NXM_OF_ETH_DST, NXM_OF_ETH_DST_W} =>
                rule'.flow.dl_src = rule.flow.dl_src
          /\ ( /\ header' = NXM_OF_ETH_DST_W
               /\ Bytes(d, p + 4 + ETH_ADDR_LEN, ETH_ADDR_LEN) = eth_all_0s ) =>
                rule' = rule]_vars

\* the same for every entry but an NXM_OF_ETH_DST_W entry with one of the
\* masks 01:00:00:00:00:00 and fe:ff:ff:ff:ff:ff
C17_FrameButMulticast ==
    [][( /\ EntryAccepted
         /\ ~ ( /\ header' = NXM_OF_ETH_DST_W
                /\ Bytes(d, p + 4 + ETH_ADDR_LEN, ETH_ADDR_LEN)
                       \in {eth_mcast_1, eth_mcast_0} ) ) =>
          /\ OnlyFieldChanged(rule, rule', nxm_field_lookup(header'))
          /\ ( /\ header' = NXM_OF_ETH_DST_W
               /\ Bytes(d, p + 4 + ETH_ADDR_LEN, ETH_ADDR_LEN) = eth_all_0s ) =>
                rule' = rule]_vars

----------------------------------------------------------------------------
(* C18: the bytes that nx_pull_match() reads.                              *)

ReadPool ==
    { E_ETH_TYPE(ETH_TYPE_IP),
      NXM_OF_ETH_DST_W \o MAC1 \o eth_mcast_1,
      NXM_OF_ETH_DST_W \o MAC1 \o eth_all_0s,
      NXM_OF_VLAN_TCI_W \o Be16(VLAN_CFI + 291) \o Be16(8191),
      NXM_OF_IP_SRC_W \o IP2 \o MASK24,
      NXM_NX_TUN_ID \o <<0, 0, 0, 1, 0, 0, 0, 42>>,
      NXM_NX_REG_W(1) \o REGV \o REGM,
      NXM_HEADER(2, 0, 2) \o <<0, 10>> }

ReadTails ==
    { <<>>, <<0>>, <<0, 0, 6>>, NXM_OF_ETH_TYPE,
      NXM_NX_TUN_ID \o <<0, 0, 0, 1, 0, 0>> }

\* the buffer holds the whole padded match, or 8 bytes less
ReadInputs ==
    Messages({<<>>}, ReadPool, MaxBody, ReadTails, {0, 8}, {7}, {<<>>})

InitRead == \E in \in ReadInputs : InitPull(in)

SpecRead == InitRead /\ [][Next]_vars

\* C18: nx_pull_match() reads header, value and mask bytes only at offsets
\* of the pulled region below match_len, and what it reads of an entry lies
\* within the entry's 4 + length bytes; when ROUND_UP(match_len, 8) exceeds
\* the bytes that remain in the buffer it returns OFPBRC_BAD_LEN, consumes
\* nothing of the buffer and examines no entry.
C18_ReadsInBounds ==
    [][ /\ pc' \in {"loop", "returned"} =>
              \A q \in reads' : q >= 0 /\ q < PassLen
        /\ (pc = "loop" /\ header' # NO_HEADER) =>
              (reads' \ reads) \subseteq Span(p, 4 + NXM_LENGTH(header'))
        /\ (pc = "start" /\ ROUND_UP(PassLen, 8) > Len(b)) =>
              /\ error' = OFPBRC_BAD_LEN
              /\ pc' = "returned"
              /\ b' = b
              /\ rule' = rule
              /\ reads' = {}
              /\ header' = NO_HEADER ]_vars

\* a message that begins with a masked entry was decoded to its last byte,
\* which is not the last of the padded region
C18_Witness ==
    /\ pc = "returned" /\ pass = 1 /\ error = NO_ERROR
    /\ arg_len % 8 # 0
    /\ (arg_len - 1) \in reads
    /\ Bytes(d, 0, 4) = NXM_OF_ETH_DST_W
    /\ Cardinality(reads) > 16

\* a buffer shorter than the padded match was refused
C18_WitnessBadLen ==
    /\ pc = "returned" /\ error = OFPBRC_BAD_LEN
    /\ arg_len > 0 /\ Len(b) > 0 /\ b = msg
    /\ reads = {}

----------------------------------------------------------------------------
(* C21: what nxm_execute_reg_load() changes.                               *)

\* the step of nxm_execute_reg_load() on an accepted load
LoadExecutes == pc = "checked" /\ IsLoad /\ pc' = "executed"

\* bit k (0 the least significant) of a register held as 4 bytes
RegBit(bytes, k) == (bytes[4 - (k \div 8)] \div 2^(k % 8)) % 2

\* C21: nxm_execute_reg_load() of an accepted load sets bits
\* [ofs, ofs + n_bits) of the destination register to the low n_bits bits of
\* the literal and leaves as they were the other bits of that register,
\* every other register and every other member of the flow.
C21_LoadFrame ==
    [][LoadExecutes =>
          LET idx == NXM_FIELD(action.dst)
          IN /\ \A k \in 0..31 :
                   RegBit(flow'.regs[idx], k) =
                       IF k >= LoadOfsOf /\ k < LoadOfsOf + LoadNBitsOf
                       THEN ValueBit(k - LoadOfsOf)
                       ELSE RegBit(flow.regs[idx], k)
             /\ flow' = [flow EXCEPT !.regs[idx] = flow'.regs[idx]]]_vars

\* a load of 8 one-bits into the middle of a register that had other bits
\* set was executed
C21_Witness ==
    /\ pc = "executed" /\ IsLoad
    /\ action.dst = NXM_NX_REG(2)
    /\ LoadOfsOf = 8 /\ LoadNBitsOf = 8
    /\ action.value = <<0, 0, 0, 0, 0, 0, 0, 255>>
    /\ flow.regs[2] = <<222, 173, 255, 239>>

\* a load of zeros cleared bits of a register
C21_WitnessCleared ==
    /\ pc = "executed" /\ IsLoad
    /\ action.dst = NXM_NX_REG(2)
    /\ LoadOfsOf = 8 /\ LoadNBitsOf = 24
    /\ action.value = Zeros(8)
    /\ flow.regs[2] = <<0, 0, 0, 239>>

\* ---------------------------------------------------------------------
\* ovsdb mutations: the "*=" mutator on an integer column
\* ---------------------------------------------------------------------

\* An int64_t is modelled with its full width: a sign and a magnitude,
\* the magnitude a sequence of bytes, least significant first, whose last
\* byte is not 0 (the empty sequence is 0).  Every number has one
\* representation, so = on these records is = on the numbers.

RECURSIVE nat_trim(_)
\* m without its high zero bytes
nat_trim(m) ==
    IF m = <<>> \/ m[Len(m)] # 0 THEN m
    ELSE nat_trim(SubSeq(m, 1, Len(m) - 1))

RECURSIVE nat_of(_)
\* the magnitude of a natural number
nat_of(k) == IF k = 0 THEN <<>> ELSE <<k % 256>> \o nat_of(k \div 256)

RECURSIVE nat_less_from(_, _, _)
\* m < n for magnitudes that agree above byte k and have bytes k..1
nat_less_from(m, n, k) ==
    IF k = 0 THEN FALSE
    ELSE IF m[k] # n[k] THEN m[k] < n[k]
    ELSE nat_less_from(m, n, k - 1)

nat_less(m, n) ==
    IF Len(m) # Len(n) THEN Len(m) < Len(n)
    ELSE nat_less_from(m, n, Len(m))

RECURSIVE nat_add_carry(_, _, _)
nat_add_carry(m, n, c) ==
    IF m = <<>> /\ n = <<>> THEN (IF c = 0 THEN <<>> ELSE <<c>>)
    ELSE LET t == (IF m = <<>> THEN 0 ELSE m[1])
                  + (IF n = <<>> THEN 0 ELSE n[1]) + c
         IN <<t % 256>> \o nat_add_carry(IF m = <<>> THEN m ELSE Tail(m),
                                         IF n = <<>> THEN n ELSE Tail(n),
                                         t \div 256)

nat_add(m, n) == nat_add_carry(m, n, 0)

RECURSIVE nat_sub_borrow(_, _, _)
nat_sub_borrow(m, n, c) ==
    IF m = <<>> THEN <<>>
    ELSE LET t == m[1] - (IF n = <<>> THEN 0 ELSE n[1]) - c
         IN <<t % 256>> \o nat_sub_borrow(Tail(m),
                                          IF n = <<>> THEN n ELSE Tail(n),
                                          IF t < 0 THEN 1 ELSE 0)

\* m - n, for n <= m
nat_sub(m, n) == nat_trim(nat_sub_borrow(m, n, 0))

\* 256 * m
nat_shl8(m) == IF m = <<>> THEN m ELSE <<0>> \o m

RECURSIVE nat_mul_carry(_, _, _)
nat_mul_carry(m, k, c) ==
    IF m = <<>> THEN nat_of(c)
    ELSE LET t == m[1] * k + c
         IN <<t % 256>> \o nat_mul_carry(Tail(m), k, t \div 256)

\* m * k, for k in 0..256
nat_mul_small(m, k) == nat_trim(nat_mul_carry(m, k, 0))

RECURSIVE nat_mul(_, _)
\* the product, of as many bytes as it takes
nat_mul(m, n) ==
    IF m = <<>> THEN <<>>
    ELSE nat_add(nat_mul_small(n, m[1]), nat_shl8(nat_mul(Tail(m), n)))

\* the byte k with n * k <= r < n * (k + 1), for r < 256 * n
nat_div_digit(r, n) ==
    CHOOSE k \in 0..255 : /\ ~nat_less(r, nat_mul_small(n, k))
                          /\ nat_less(r, nat_mul_small(n, k + 1))

RECURSIVE nat_div_loop(_, _, _, _, _)
\* long division: bytes k..1 of m are still to bring down, q is the
\* quotient of the bytes above them and r their remainder
nat_div_loop(m, n, k, q, r) ==
    IF k = 0 THEN q
    ELSE LET r2 == nat_trim(<<m[k]>> \o r)
             c == nat_div_digit(r2, n)
         IN nat_div_loop(m, n, k - 1, nat_trim(<<c>> \o q),
                         nat_sub(r2, nat_mul_small(n, c)))

\* the quotient of m by n, rounded down, for n # 0
nat_div(m, n) == nat_div_loop(m, n, Len(m), <<>>, <<>>)

\* the integer of the given sign and magnitude
Int64(negative, m) == [neg |-> negative /\ m # <<>>, mag |-> m]

ZERO == Int64(FALSE, <<>>)
INT64_MAX == Int64(FALSE, <<255, 255, 255, 255, 255, 255, 255, 127>>)
INT64_MIN == Int64(TRUE, <<0, 0, 0, 0, 0, 0, 0, 128>>)

\* x < y
int_less(x, y) ==
    IF x.neg # y.neg THEN x.neg
    ELSE IF x.neg THEN nat_less(y.mag, x.mag)
    ELSE nat_less(x.mag, y.mag)

\* C's x / y for y # 0: the quotient truncated toward zero
int_div(x, y) == Int64(x.neg # y.neg, nat_div(x.mag, y.mag))

\* the mathematical product
int_mul(x, y) == Int64(x.neg # y.neg, nat_mul(x.mag, y.mag))

\* z is a value of int64_t
in_int64(z) == ~int_less(z, INT64_MIN) /\ ~int_less(INT64_MAX, z)

\* 2^64 - m, for 0 < m <= 2^64
nat_neg64(m) == nat_sub(<<0, 0, 0, 0, 0, 0, 0, 0, 1>>, m)

\* the int64_t congruent to z modulo 2^64
wrap64(z) ==
    LET low == nat_trim(SubSeq(z.mag, 1, IF Len(z.mag) < 8 THEN Len(z.mag)
                                          ELSE 8))
        u == IF z.neg /\ low # <<>> THEN nat_neg64(low) ELSE low
    IN IF Len(u) = 8 /\ u[8] >= 128 THEN Int64(TRUE, nat_neg64(u))
       ELSE Int64(FALSE, u)

\* enum mutate_error
ME_OK == "ME_OK"
ME_RANGE == "ME_RANGE"
\* the process was stopped by a trap (SIGFPE) before the function returned
TRAPPED == "trapped"

\* what a mutator leaves behind: its return value and *x
Mutated(e, x) == [error |-> e, x |-> x]

\* mul_int(): the condition of its if statement, for operands whose
\* divisions are defined
mul_int_range_error(x, y) ==
    IF int_less(ZERO, x)
    THEN IF int_less(ZERO, y)
         THEN ~int_less(x, int_div(INT64_MAX, y))
         ELSE int_less(y, int_div(INT64_MIN, x))
    ELSE IF int_less(ZERO, y)
         THEN int_less(x, int_div(INT64_MIN, y))
         ELSE x # ZERO /\ int_less(y, int_div(INT64_MAX, y))

\* mul_int() evaluates INT64_MAX / y with y = 0: neither operand is
\* positive, *x != 0 holds, and the right operand of && divides by y
mul_int_divides_by_zero(x, y) ==
    ~int_less(ZERO, x) /\ ~int_less(ZERO, y) /\ x # ZERO /\ y = ZERO

\* mul_int(&x, y): the set of its possible outcomes.  A division by zero
\* is undefined: it traps, or the condition takes either value.  A
\* product outside int64_t is undefined: *x wraps around, or it traps.
mul_int(x, y) ==
    IF mul_int_divides_by_zero(x, y)
    THEN {Mutated(TRAPPED, x), Mutated(ME_RANGE, x),
          Mutated(ME_OK, int_mul(x, y))}
    ELSE IF mul_int_range_error(x, y)
    THEN {Mutated(ME_RANGE, x)}
    ELSE IF in_int64(int_mul(x, y))
    THEN {Mutated(ME_OK, int_mul(x, y))}
    ELSE {Mutated(ME_OK, wrap64(int_mul(x, y))), Mutated(TRAPPED, x)}

\* the int64_t of a small number
int64_of(k) == Int64(k < 0, nat_of(IF k < 0 THEN -k ELSE k))

\* -x, for x # INT64_MIN
int_neg(x) == Int64(~x.neg, x.mag)

\* mutate_scalar(dst_type, dst, arg, mul_int, mul_double) on a column of
\* integers that holds one key: the loop calls mul_int() once, and
\* sorting one key changes nothing and finds no duplicate
InitMutation(x, y) ==
    /\ msg = <<>>
    /\ arg_len = 0
    /\ priority = 0
    /\ b = <<>>
    /\ d = <<>>
    /\ p = 0
    /\ match_len = 0
    /\ header = NO_HEADER
    /\ rule = cls_rule_init_catchall(0)
    /\ error = RUNNING
    /\ cr = cls_rule_init_catchall(0)
    /\ out = <<>>
    /\ start_len = 0
    /\ put_len = 0
    /\ pass = 1
    /\ pc = "mutate"
    /\ reads = {}
    /\ NoText /\ NoAction /\ NoThreads
    /\ keys = <<x>>
    /\ arg = y
    /\ mutate_error = RUNNING

MutateScalar ==
    /\ keys # <<>>
    /\ mutate_error = RUNNING
    /\ \E o \in mul_int(keys[1], arg) :
          /\ keys' = <<o.x>>
          /\ mutate_error' = o.error
    /\ UNCHANGED <<match_vars, text, reg_vars, init_vars, arg>>

NextMutation == MutateScalar

\* the positive operands: small ones, the powers of two whose products
\* reach 2^62, 2^63 and 2^64, the least number whose square is above
\* INT64_MAX, a third of INT64_MAX, and INT64_MAX
MulPositive ==
    { int64_of(1), int64_of(2), int64_of(3),
      Int64(FALSE, <<0, 0, 0, 128>>),
      Int64(FALSE, <<0, 0, 0, 0, 1>>),
      Int64(FALSE, <<52, 243, 4, 181>>),
      Int64(FALSE, <<170, 170, 170, 170, 170, 170, 170, 42>>),
      Int64(FALSE, <<0, 0, 0, 0, 0, 0, 0, 64>>),
      INT64_MAX }

\* 0, the positive operands, their negations and INT64_MIN
MulOperands ==
    {ZERO, INT64_MIN} \cup MulPositive \cup { int_neg(x) : x \in MulPositive }

InitMutationSpec == \E x, y \in MulOperands : InitMutation(x, y)

SpecMutation == InitMutationSpec /\ [][NextMutation]_vars

\* a step in which mutate_scalar() ends, by returning or by a trap
MulEnds == mutate_error = RUNNING /\ mutate_error' # RUNNING

\* C22: the checked multiply of the "*=" mutator is exact: for every pair
\* of signed 64-bit integers x and y it returns ME_RANGE and leaves x
\* unchanged exactly when the mathematical product x*y is outside the
\* signed 64-bit range, and otherwise returns 0 and stores the product;
\* the overflow test is defined for every pair (it does not divide by
\* zero), so the call always returns.
C22_MulExact ==
    [][MulEnds =>
          IF in_int64(int_mul(keys[1], arg))
          THEN mutate_error' = ME_OK /\ keys' = <<int_mul(keys[1], arg)>>
          ELSE mutate_error' = ME_RANGE /\ keys' = keys]_vars

\* C22, the part that holds: when one operand is positive and the other
\* is not, or when x is 0, the multiply is exact and its test is defined
C22_MixedSignsExact ==
    [][(/\ MulEnds
        /\ \/ keys[1] = ZERO
           \/ int_less(ZERO, keys[1]) # int_less(ZERO, arg)) =>
          IF in_int64(int_mul(keys[1], arg))
          THEN mutate_error' = ME_OK /\ keys' = <<int_mul(keys[1], arg)>>
          ELSE mutate_error' = ME_RANGE /\ keys' = keys]_vars

\* C22, the part that holds: a multiply that returns ME_RANGE has left x
\* as it was
C22_RangeErrorKeepsX ==
    [][(MulEnds /\ mutate_error' = ME_RANGE) => keys' = keys]_vars

\* C22, the ways it fails: a product that fits is refused
C22_FitsButRefused ==
    /\ mutate_error = ME_RANGE
    /\ in_int64(int_mul(keys[1], arg))

\* C22, the ways it fails: the test divided by zero and trapped
C22_TrappedOnZero ==
    mutate_error = TRAPPED /\ arg = ZERO

\* C22, the ways it fails: a product that does not fit was stored, wrapped
C22_WrappedStored ==
    /\ mutate_error = ME_OK
    /\ arg = int64_of(-1)
    /\ keys = <<INT64_MIN>>

====
